---- MODULE Spec2Model ----
(***************************************************************************)
(* Executor pipeline of rust-core: the shared ValidationState, the         *)
(* should_skip gate sequence and process_signal (validate, lock, deduct,   *)
(* stamp, sign, POST, unlock, trade result, callback), run against the     *)
(* host's pushes (update_balance, set_trading_enabled,                     *)
(* update_minted_assets, on_trade_result).                                 *)
(*                                                                         *)
(* Numbers.  Prices, sizes and balances are f64 in the source.  Here they  *)
(* are non-negative integers: a price is a count of 1/PriceUnit steps, a   *)
(* size is a share count, and a balance or cost is price steps times       *)
(* shares.  Floating-point rounding is therefore not represented.          *)
(* Option<f64> is an integer or NoneVal.                                   *)
(***************************************************************************)
EXTENDS Integers, Sequences, FiniteSets, TLC

\* ------------------------------------------------------------------ bounds
PriceUnit == 2          \* price steps per 1.0
MaxTime == 2            \* the wall clock runs over 1..MaxTime
MaxPush == 15           \* the balance the host pushes (besides 0)
MaxResponses == 2       \* longest per-order response array of a 2xx answer
Timeout == 1            \* config.opportunity_timeout_ms
MaxParents == 3         \* most parents of a pushed group
MaxChildren == 2        \* most range children of a pushed group
MaxTokens == 2          \* most token ids of a subscribe or unsubscribe call
MaxConnections == 2     \* most connection tasks spawned
MaxRaw == 1             \* most messages waiting in a raw-message channel
MaxAttempts == 70       \* most consecutive failed connection attempts
MaxFailures == 1        \* the same while a shutdown is followed
MaxOrders == 17         \* most orders of a batch placed by the host

\* --------------------------------------------------------- program constants
MIN_ORDER_SIZE == 5     \* size < 5.0 is InvalidSize
NoneVal == -1           \* Option::None of an Option<f64>

\* The single executor task, and a second invocation used only to examine
\* the is_submitting guard under overlap.
Executor == 1
Procs == {1, 2}

Groups == {"g1"}
OtherGroup == "g2"      \* a group no signal trades, pushed only in SpecMinted
Tokens == {"101", "102", "103", "0xZZ"}

Strategies ==
    {"POLYMARKET_TRIANGLE_BUY", "SELL_PARENT_BUY_CHILDREN",
     "BUY_PARENT_SELL_CHILDREN", "POLYMARKET_COMPLEMENT_BUY"}

VARIABLES
    usdc_balance,       \* ValidationState.usdc_balance
    trading_enabled,    \* ValidationState.trading_enabled
    is_submitting,      \* ValidationState.is_submitting
    last_executed_at,   \* ValidationState.last_executed_at (epoch ms)
    minted_assets,      \* ValidationState.minted_assets: group -> token -> amount or NoneVal (no entry)
    config,             \* ExecutorState.config
    on_trade_result,    \* CallbackRegistry.on_trade_result is Some
    now,                \* epoch milliseconds
    pc,                 \* position of each process_signal invocation
    signal,             \* the signal being processed
    validation_result,  \* Ok value of should_skip
    current,            \* try_deduct_balance: the value loaded (line 87-88)
    balance,            \* restore: `let balance = get_balance()`
    post_result,        \* PostBatchResult of the POST
    trade_result,       \* the TradeResult built from it
    outcome,            \* how the invocation went so far (history)
    balance_before,     \* usdc_balance just before this invocation's deduction (history)
    refreshed,          \* a host update_balance landed since the deduction (history)
    posts,              \* POSTs sent by this invocation (history)
    delivered,          \* TradeResults handed to the callback by this invocation (history)
    slots,              \* EngineState.price_table.slots
    token_to_slot,      \* EngineState.price_table.token_to_slot
    groups,             \* EngineState.groups
    token_index,        \* EngineState.token_index
    last_price_cache,   \* EngineState.last_price_cache
    engine_config,      \* EngineState.config
    call,               \* the last call made on the engine, with its arguments (history)
    returned,           \* what that call returned (history)
    emitted,            \* when each trio and strategy last emitted a signal (history)
    order,              \* the price, size and side an order is being built from
    prepared,           \* what apply_slippage and the two order constructions made of it
    built,              \* a signal and the candidates build_order_candidates made of it
    signing,            \* a batch of orders and what sign_batch_orders returned for it
    socket_config,      \* SocketManager.config
    connections,        \* SocketManager.connections: n of "conn_n" -> token roster
    task_handles,       \* SocketManager.task_handles
    ws,                 \* the WsClient tasks spawned, in spawn order
    parser,             \* the parser tasks spawned beside them
    raw,                \* messages queued in each task pair's raw channel
    shutdown_tx,        \* the value of the shutdown watch channel
    manager_pc,         \* position of the call holding the MANAGER lock
    socket_call,        \* the last subscribe or unsubscribe call and what it started (history)
    overflow_checks,    \* the build panics on integer overflow (debug profile)
    executor_state,     \* EXECUTOR_STATE and EXECUTOR_TX are set
    executor_init,      \* the init_executor calls: what they stored, spawned and returned (history)
    executor_rx,        \* signals queued in the executor's channel
    batch               \* the last place_batch_orders_rust call and its result (history)

shared == <<usdc_balance, trading_enabled, is_submitting, last_executed_at, minted_assets>>
locals == <<signal, validation_result, current, balance, post_result, trade_result>>
history == <<outcome, balance_before, refreshed, posts, delivered>>
engine == <<slots, token_to_slot, groups, token_index, last_price_cache, engine_config,
            call, returned, emitted>>
executor == <<shared, config, on_trade_result, pc, locals, history>>
pricing == <<order, prepared, built, signing>>
socket == <<socket_config, connections, task_handles, ws, parser, raw, shutdown_tx,
            manager_pc, socket_call, overflow_checks>>
bridge == <<executor_state, executor_init, executor_rx, batch>>
vars == <<shared, config, on_trade_result, now, pc, locals, history, engine, pricing,
          socket, bridge>>

\* ------------------------------------------------------------------ signals
IsSome(x) == x # NoneVal

UnwrapOr(x, d) == IF IsSome(x) THEN x ELSE d

\* A signal whose parent leg quotes `px` and whose other two legs quote
\* `px_rest`, all with book size `sz`.
MkSignal(strategy, profit_abs, px, px_rest, sz, child_tok) ==
    [ group_key |-> "g1", strategy |-> strategy, profit_abs |-> profit_abs,
      parent_asset_id |-> "101",
      parent_best_bid |-> px, parent_best_ask |-> px,
      parent_best_bid_size |-> sz, parent_best_ask_size |-> sz,
      parent_neg_risk |-> FALSE,
      parent_upper_asset_id |-> "102",
      parent_upper_best_bid |-> px_rest, parent_upper_best_ask |-> px_rest,
      parent_upper_best_bid_size |-> sz, parent_upper_best_ask_size |-> sz,
      parent_upper_neg_risk |-> FALSE,
      child_asset_id |-> child_tok,
      child_best_bid |-> px_rest, child_best_ask |-> px_rest,
      child_best_bid_size |-> sz, child_best_ask_size |-> sz,
      child_neg_risk |-> TRUE,
      children_sum_ask |-> UnwrapOr(px_rest, 0),
      parent_best_bid_flat |-> px, parent_best_ask_flat |-> px,
      triangle_total_cost |->
          IF strategy = "POLYMARKET_TRIANGLE_BUY"
          THEN UnwrapOr(px, 0) + 2 * UnwrapOr(px_rest, 0)
          ELSE NoneVal ]

\* The signals the executor is fed: each strategy and a tag that is no
\* strategy fully quoted, and the
\* triangle with a missing pair of legs, no profit, a thin book, and a child
\* token id that is not a number.
Signals ==
    { MkSignal(s, 1, 1, 1, NoneVal, "103") : s \in Strategies \cup {"UNKNOWN_STRATEGY"} }
    \cup { MkSignal("POLYMARKET_TRIANGLE_BUY", 1, 1, NoneVal, NoneVal, "103"),
           MkSignal("POLYMARKET_TRIANGLE_BUY", 0, 1, 1, NoneVal, "103"),
           MkSignal("POLYMARKET_TRIANGLE_BUY", 1, 1, 1, MIN_ORDER_SIZE - 1, "103"),
           MkSignal("POLYMARKET_TRIANGLE_BUY", 1, 1, 1, NoneVal, "0xZZ") }

NoSignal == MkSignal("", 0, NoneVal, NoneVal, NoneVal, "")

Configs ==
    { [ min_pnl_threshold_percent |-> 10, default_size |-> sz,
        slippage_enabled |-> FALSE, opportunity_timeout_ms |-> Timeout ] :
        sz \in {MIN_ORDER_SIZE - 1, MIN_ORDER_SIZE} }

\* ------------------------------------------------------- validation state
get_balance == usdc_balance

get_minted_amount(group_key, token_id) ==
    IF group_key \in DOMAIN minted_assets /\ token_id \in DOMAIN minted_assets[group_key]
    THEN UnwrapOr(minted_assets[group_key][token_id], 0)
    ELSE 0

Max(a, b) == IF a >= b THEN a ELSE b

\* deduct_minted: (*current - amount).max(0.0) on an existing entry, nothing otherwise.
deduct_minted(cache, group_key, token_id, amount) ==
    IF group_key \in DOMAIN cache /\ token_id \in DOMAIN cache[group_key]
       /\ IsSome(cache[group_key][token_id])
    THEN [cache EXCEPT ![group_key][token_id] = Max(@ - amount, 0)]
    ELSE cache

saturating_sub(a, b) == IF a >= b THEN a - b ELSE 0

\* ------------------------------------------------------ order preparation
Candidate(px, tok, side, sz, neg_risk) ==
    IF IsSome(px)
    THEN << [ token_id |-> tok, price |-> px, side |-> side,
              orderbook_size |-> sz, neg_risk |-> neg_risk ] >>
    ELSE << >>

\* Faulty variant of build_order_candidates: the legs sold are priced at their
\* asks.
build_order_candidates_at_asks(sig) ==
    CASE sig.strategy = "POLYMARKET_TRIANGLE_BUY" ->
            Candidate(sig.parent_best_ask, sig.parent_asset_id, "BUY",
                      sig.parent_best_ask_size, sig.parent_neg_risk)
         \o Candidate(sig.parent_upper_best_ask, sig.parent_upper_asset_id, "BUY",
                      sig.parent_upper_best_ask_size, sig.parent_upper_neg_risk)
         \o Candidate(sig.child_best_ask, sig.child_asset_id, "BUY",
                      sig.child_best_ask_size, sig.child_neg_risk)
      [] sig.strategy = "SELL_PARENT_BUY_CHILDREN" ->
            Candidate(sig.parent_best_ask_flat, sig.parent_asset_id, "SELL",
                      sig.parent_best_bid_size, sig.parent_neg_risk)
         \o Candidate(sig.parent_upper_best_ask, sig.parent_upper_asset_id, "BUY",
                      sig.parent_upper_best_ask_size, sig.parent_upper_neg_risk)
         \o Candidate(sig.child_best_ask, sig.child_asset_id, "BUY",
                      sig.child_best_ask_size, sig.child_neg_risk)
      [] sig.strategy = "BUY_PARENT_SELL_CHILDREN" ->
            Candidate(sig.parent_best_ask_flat, sig.parent_asset_id, "BUY",
                      sig.parent_best_ask_size, sig.parent_neg_risk)
         \o Candidate(sig.parent_upper_best_ask, sig.parent_upper_asset_id, "SELL",
                      sig.parent_upper_best_bid_size, sig.parent_upper_neg_risk)
         \o Candidate(sig.child_best_ask, sig.child_asset_id, "SELL",
                      sig.child_best_bid_size, sig.child_neg_risk)
      [] OTHER -> << >>

\* Faulty variant of build_order_candidates: a tag that is none of the three
\* is traded as the triangle.
build_order_candidates_any_tag(sig) ==
    IF sig.strategy = "SELL_PARENT_BUY_CHILDREN"
    THEN    Candidate(sig.parent_best_bid_flat, sig.parent_asset_id, "SELL",
                      sig.parent_best_bid_size, sig.parent_neg_risk)
         \o Candidate(sig.parent_upper_best_ask, sig.parent_upper_asset_id, "BUY",
                      sig.parent_upper_best_ask_size, sig.parent_upper_neg_risk)
         \o Candidate(sig.child_best_ask, sig.child_asset_id, "BUY",
                      sig.child_best_ask_size, sig.child_neg_risk)
    ELSE IF sig.strategy = "BUY_PARENT_SELL_CHILDREN"
    THEN    Candidate(sig.parent_best_ask_flat, sig.parent_asset_id, "BUY",
                      sig.parent_best_ask_size, sig.parent_neg_risk)
         \o Candidate(sig.parent_upper_best_bid, sig.parent_upper_asset_id, "SELL",
                      sig.parent_upper_best_bid_size, sig.parent_upper_neg_risk)
         \o Candidate(sig.child_best_bid, sig.child_asset_id, "SELL",
                      sig.child_best_bid_size, sig.child_neg_risk)
    ELSE    Candidate(sig.parent_best_ask, sig.parent_asset_id, "BUY",
                      sig.parent_best_ask_size, sig.parent_neg_risk)
         \o Candidate(sig.parent_upper_best_ask, sig.parent_upper_asset_id, "BUY",
                      sig.parent_upper_best_ask_size, sig.parent_upper_neg_risk)
         \o Candidate(sig.child_best_ask, sig.child_asset_id, "BUY",
                      sig.child_best_ask_size, sig.child_neg_risk)

build_order_candidates(sig) ==
    CASE sig.strategy = "POLYMARKET_TRIANGLE_BUY" ->
            Candidate(sig.parent_best_ask, sig.parent_asset_id, "BUY",
                      sig.parent_best_ask_size, sig.parent_neg_risk)
         \o Candidate(sig.parent_upper_best_ask, sig.parent_upper_asset_id, "BUY",
                      sig.parent_upper_best_ask_size, sig.parent_upper_neg_risk)
         \o Candidate(sig.child_best_ask, sig.child_asset_id, "BUY",
                      sig.child_best_ask_size, sig.child_neg_risk)
      [] sig.strategy = "SELL_PARENT_BUY_CHILDREN" ->
            Candidate(sig.parent_best_bid_flat, sig.parent_asset_id, "SELL",
                      sig.parent_best_bid_size, sig.parent_neg_risk)
         \o Candidate(sig.parent_upper_best_ask, sig.parent_upper_asset_id, "BUY",
                      sig.parent_upper_best_ask_size, sig.parent_upper_neg_risk)
         \o Candidate(sig.child_best_ask, sig.child_asset_id, "BUY",
                      sig.child_best_ask_size, sig.child_neg_risk)
      [] sig.strategy = "BUY_PARENT_SELL_CHILDREN" ->
            Candidate(sig.parent_best_ask_flat, sig.parent_asset_id, "BUY",
                      sig.parent_best_ask_size, sig.parent_neg_risk)
         \o Candidate(sig.parent_upper_best_bid, sig.parent_upper_asset_id, "SELL",
                      sig.parent_upper_best_bid_size, sig.parent_upper_neg_risk)
         \o Candidate(sig.child_best_bid, sig.child_asset_id, "SELL",
                      sig.child_best_bid_size, sig.child_neg_risk)
      [] OTHER -> << >>

calculate_total_cost(sig) ==
    CASE sig.strategy = "POLYMARKET_TRIANGLE_BUY" -> UnwrapOr(sig.triangle_total_cost, 0)
      [] sig.strategy = "SELL_PARENT_BUY_CHILDREN" ->
            sig.children_sum_ask + UnwrapOr(sig.parent_upper_best_ask, 0)
            + (PriceUnit - UnwrapOr(sig.parent_best_bid, 0))
      [] sig.strategy = "BUY_PARENT_SELL_CHILDREN" ->
            UnwrapOr(sig.parent_best_ask_flat, 0)
            + (PriceUnit - UnwrapOr(sig.child_best_bid, 0))
            + (PriceUnit - UnwrapOr(sig.parent_upper_best_bid, 0))
      [] OTHER -> 0

RECURSIVE estimate_required_cost(_, _)
estimate_required_cost(candidates, size) ==
    IF candidates = << >> THEN 0
    ELSE (IF Head(candidates).side = "BUY" THEN Head(candidates).price * size ELSE 0)
         + estimate_required_cost(Tail(candidates), size)

\* The orders handed to the signer: one per candidate, in order.
prepare_batch_orders(candidates) ==
    [ i \in 1..Len(candidates) |->
        [ token_id |-> candidates[i].token_id,
          side |-> IF candidates[i].side = "BUY" THEN 0 ELSE 1,
          neg_risk |-> candidates[i].neg_risk,
          fee_rate_bps |-> 0 ] ]

\* parse_u256 accepts a decimal string, or a hex string after "0x".
parse_u256_ok(s) == s \in {"101", "102", "103"}

\* sign_batch_orders is Err as soon as one order's token id does not parse.
sign_batch_orders_ok(orders) ==
    \A i \in 1..Len(orders) : parse_u256_ok(orders[i].token_id)

\* ------------------------------------------------------------- should_skip
Skip(reason) ==
    [ ok |-> FALSE, reason |-> reason, candidates |-> << >>, size |-> 0,
      required_cost |-> 0, total_cost |-> 0 ]

\* pnl_percent < min_pnl_threshold_percent, with
\* pnl_percent = profit_abs / total_cost * 100 when total_cost > 0 and 0 otherwise;
\* the division is cleared by multiplying both sides by total_cost.
pnl_below_threshold(sig, total_cost) ==
    IF total_cost > 0
    THEN sig.profit_abs * 100 < config.min_pnl_threshold_percent * total_cost
    ELSE 0 < config.min_pnl_threshold_percent

\* Faulty variant of the cooldown gate: the comparison is turned around.
cooldown_inverted ==
    /\ last_executed_at > 0
    /\ saturating_sub(now, last_executed_at) > config.opportunity_timeout_ms

\* last > 0 && now_ms.saturating_sub(last) < config.opportunity_timeout_ms
cooldown_active ==
    /\ last_executed_at > 0
    /\ saturating_sub(now, last_executed_at) < config.opportunity_timeout_ms

\* Faulty variant of should_skip: the PnL gate is tried before the candidates
\* are looked at.
should_skip_pnl_first(sig) ==
    LET candidates == build_order_candidates(sig)
        total_cost == calculate_total_cost(sig)
        size == config.default_size
        required_cost == estimate_required_cost(candidates, size)
    IN  IF ~trading_enabled THEN Skip("TradingDisabled")
        ELSE IF is_submitting THEN Skip("AlreadySubmitting")
        ELSE IF cooldown_active THEN Skip("CooldownActive")
        ELSE IF pnl_below_threshold(sig, total_cost) THEN Skip("PnlBelowThreshold")
        ELSE IF candidates = << >> THEN Skip("NoCandidates")
        ELSE IF \E i \in 1..Len(candidates) :
                    /\ IsSome(candidates[i].orderbook_size)
                    /\ candidates[i].orderbook_size < config.default_size
             THEN Skip("InsufficientOrderbookSize")
        ELSE IF size < MIN_ORDER_SIZE THEN Skip("InvalidSize")
        ELSE IF \E i \in 1..Len(candidates) :
                    /\ candidates[i].side = "SELL"
                    /\ get_minted_amount(sig.group_key, candidates[i].token_id) < size
             THEN Skip("InsufficientMintedAssets")
        ELSE IF get_balance < required_cost THEN Skip("InsufficientBalance")
        ELSE [ ok |-> TRUE, reason |-> "OK", candidates |-> candidates, size |-> size,
               required_cost |-> required_cost, total_cost |-> total_cost ]

should_skip(sig) ==
    LET candidates == build_order_candidates(sig)
        total_cost == calculate_total_cost(sig)
        size == config.default_size
        required_cost == estimate_required_cost(candidates, size)
    IN  IF ~trading_enabled THEN Skip("TradingDisabled")
        ELSE IF is_submitting THEN Skip("AlreadySubmitting")
        ELSE IF cooldown_active THEN Skip("CooldownActive")
        ELSE IF candidates = << >> THEN Skip("NoCandidates")
        ELSE IF \E i \in 1..Len(candidates) :
                    /\ IsSome(candidates[i].orderbook_size)
                    /\ candidates[i].orderbook_size < config.default_size
             THEN Skip("InsufficientOrderbookSize")
        ELSE IF pnl_below_threshold(sig, total_cost) THEN Skip("PnlBelowThreshold")
        ELSE IF size < MIN_ORDER_SIZE THEN Skip("InvalidSize")
        ELSE IF \E i \in 1..Len(candidates) :
                    /\ candidates[i].side = "SELL"
                    /\ get_minted_amount(sig.group_key, candidates[i].token_id) < size
             THEN Skip("InsufficientMintedAssets")
        ELSE IF get_balance < required_cost THEN Skip("InsufficientBalance")
        ELSE [ ok |-> TRUE, reason |-> "OK", candidates |-> candidates, size |-> size,
               required_cost |-> required_cost, total_cost |-> total_cost ]

NoValidation == Skip("")


\* ------------------------------------------------------------ the HTTP POST
\* What the CLOB answers to one POST /orders.  Response i of a parsed 2xx body
\* either carries an orderID (here: its index) or lacks one.
OrderResponses ==
    UNION { { [ i \in 1..n |->
                  IF i \in accepted
                  THEN [ order_id |-> i, error_msg |-> "None" ]
                  ELSE [ order_id |-> NoneVal, error_msg |-> msg ] ] :
              accepted \in SUBSET (1..n), msg \in {"None", "not enough balance"} } :
            n \in 0..MaxResponses }

\* transport_ok: send() returned Ok; status_success: 2xx; body_parses: the body is
\* a JSON array of order responses; excerpt_on_boundary: byte min(len, 500) of the
\* body is a UTF-8 character boundary.
HttpOutcomes ==
    { [ transport_ok |-> FALSE, status_success |-> FALSE, body_parses |-> FALSE,
        excerpt_on_boundary |-> TRUE, responses |-> << >> ],
      [ transport_ok |-> TRUE, status_success |-> FALSE, body_parses |-> FALSE,
        excerpt_on_boundary |-> TRUE, responses |-> << >> ],
      [ transport_ok |-> TRUE, status_success |-> TRUE, body_parses |-> FALSE,
        excerpt_on_boundary |-> TRUE, responses |-> << >> ],
      [ transport_ok |-> TRUE, status_success |-> TRUE, body_parses |-> FALSE,
        excerpt_on_boundary |-> FALSE, responses |-> << >> ] }
    \cup { [ transport_ok |-> TRUE, status_success |-> TRUE, body_parses |-> TRUE,
             excerpt_on_boundary |-> TRUE, responses |-> r ] : r \in OrderResponses }

\* &body_text[..body_text.len().min(500)] panics when the cut is inside a character;
\* the excerpt is taken only to report a 2xx body that does not parse.
\* (The excerpt of the debug log line is evaluated only at debug level; the
\* subscriber's default filter is "info", which is what is modelled.)
post_panics(http) ==
    http.transport_ok /\ http.status_success /\ ~http.body_parses
    /\ ~http.excerpt_on_boundary

post_batch_orders(signed_orders, http) ==
    IF signed_orders = << >>
    THEN [ success |-> FALSE, responses |-> << >>, error |-> "No orders provided" ]
    ELSE IF ~http.transport_ok
    THEN [ success |-> FALSE, responses |-> << >>, error |-> "HTTP request failed" ]
    ELSE IF ~http.status_success
    THEN [ success |-> FALSE, responses |-> << >>, error |-> "HTTP status" ]
    ELSE IF ~http.body_parses
    THEN [ success |-> FALSE, responses |-> << >>, error |-> "Failed to parse response" ]
    ELSE [ success |-> TRUE, responses |-> http.responses, error |-> "None" ]

NoPostResult == [ success |-> FALSE, responses |-> << >>, error |-> "" ]

\* ------------------------------------------------------- the trade result
RECURSIVE collect_order_ids(_)
collect_order_ids(responses) ==
    IF responses = << >> THEN << >>
    ELSE (IF IsSome(Head(responses).order_id) THEN << Head(responses).order_id >> ELSE << >>)
         \o collect_order_ids(Tail(responses))

\* Faulty variant of the failed-order record: always built from the first candidate.
FailedOrderFirst(candidates, resp, i) ==
    [ token_id |-> IF 1 <= Len(candidates) THEN candidates[1].token_id ELSE "",
      side |-> IF 1 <= Len(candidates) THEN candidates[1].side ELSE "",
      price |-> IF 1 <= Len(candidates) THEN candidates[1].price ELSE 0,
      error_msg |-> IF resp.error_msg # "None" THEN resp.error_msg
                    ELSE "Order " \o ToString(i) \o " failed" ]

FailedOrder(candidates, resp, i) ==
    [ token_id |-> IF i <= Len(candidates) THEN candidates[i].token_id ELSE "",
      side |-> IF i <= Len(candidates) THEN candidates[i].side ELSE "",
      price |-> IF i <= Len(candidates) THEN candidates[i].price ELSE 0,
      error_msg |-> IF resp.error_msg # "None" THEN resp.error_msg
                    ELSE "Order " \o ToString(i) \o " failed" ]

RECURSIVE collect_failed_orders(_, _, _)
collect_failed_orders(candidates, responses, i) ==
    IF i > Len(responses) THEN << >>
    ELSE (IF IsSome(responses[i].order_id) THEN << >>
          ELSE << FailedOrder(candidates, responses[i], i) >>)
         \o collect_failed_orders(candidates, responses, i + 1)

\* Faulty variant of the minted deduction: every SELL leg is deducted, whatever
\* its response says.
RECURSIVE deduct_sold_all(_, _, _, _, _, _)
deduct_sold_all(cache, group_key, candidates, responses, size, i) ==
    IF i > Len(candidates) THEN cache
    ELSE deduct_sold_all(
            IF candidates[i].side = "SELL"
            THEN deduct_minted(cache, group_key, candidates[i].token_id, size)
            ELSE cache,
            group_key, candidates, responses, size, i + 1)

\* Minted cache after the SELL legs whose response carries an orderID are deducted.
RECURSIVE deduct_sold(_, _, _, _, _, _)
deduct_sold(cache, group_key, candidates, responses, size, i) ==
    IF i > Len(candidates) THEN cache
    ELSE deduct_sold(
            IF /\ candidates[i].side = "SELL"
               /\ i <= Len(responses)
               /\ IsSome(responses[i].order_id)
            THEN deduct_minted(cache, group_key, candidates[i].token_id, size)
            ELSE cache,
            group_key, candidates, responses, size, i + 1)

build_trade_result(sig, vr, pr) ==
    LET order_ids == IF pr.success THEN collect_order_ids(pr.responses) ELSE << >>
        failed_orders ==
            IF pr.success THEN collect_failed_orders(vr.candidates, pr.responses, 1)
            ELSE << >>
    IN  [ success |-> pr.success /\ order_ids # << >>,
          order_ids |-> order_ids,
          failed_orders |-> failed_orders,
          total_cost |-> vr.required_cost,
          expected_pnl |-> vr.size * sig.profit_abs,
          signal_group_key |-> sig.group_key,
          signal_strategy |-> sig.strategy,
          signal_profit_abs |-> sig.profit_abs ]

NoTradeResult == build_trade_result(NoSignal, NoValidation, NoPostResult)

\* Faulty variant of the restore: the balance read is stored back as it is.
restored_nothing(read, required_cost) == read

\* Restore: set_balance(balance + required_cost).
restored_balance(read, required_cost) == read + required_cost


\* ---------------------------------------------------------------- the host
BalancePushes == {0, MaxPush}

AssetMaps == { [ t \in Tokens |-> MIN_ORDER_SIZE ] }

\* Positions of process_signal between the optimistic deduction and the end of
\* the restore.
Deducted ==
    {"stamp", "post_await", "sign_restore_get", "sign_restore_set",
     "post_restore_get", "post_restore_set"}

update_balance(b) ==
    /\ usdc_balance' = b
    /\ refreshed' = [ p \in Procs |-> refreshed[p] \/ pc[p] \in Deducted ]
    /\ UNCHANGED <<engine, pricing, socket, bridge, trading_enabled, is_submitting, last_executed_at, minted_assets,
                   config, on_trade_result, now, pc, locals,
                   outcome, balance_before, posts, delivered>>

set_trading_enabled(enabled) ==
    /\ trading_enabled' = enabled
    /\ UNCHANGED <<engine, pricing, socket, bridge, usdc_balance, is_submitting, last_executed_at, minted_assets,
                   config, on_trade_result, now, pc, locals, history>>

update_minted_assets(group_key, assets) ==
    /\ minted_assets' = [minted_assets EXCEPT ![group_key] = assets]
    /\ UNCHANGED <<engine, pricing, socket, bridge, usdc_balance, trading_enabled, is_submitting, last_executed_at,
                   config, on_trade_result, now, pc, locals, history>>

set_on_trade_result ==
    /\ on_trade_result' = TRUE
    /\ UNCHANGED <<engine, pricing, socket, bridge, shared, config, now, pc, locals, history>>

Tick ==
    /\ now < MaxTime
    /\ now' = now + 1
    /\ UNCHANGED <<engine, pricing, socket, bridge, shared, config, on_trade_result, pc, locals, history>>

\* ----------------------------------------------------------- process_signal
Goto(p, label) == pc' = [pc EXCEPT ![p] = label]

Ends(p, how) ==
    /\ Goto(p, "done")
    /\ outcome' = [outcome EXCEPT ![p] = how]

\* rx.recv() hands over a signal and should_skip decides on it.
Validate(p, sigs) ==
    /\ pc[p] = "recv"
    /\ \E sig \in sigs :
         LET r == should_skip(sig) IN
         IF r.ok
         THEN /\ Goto(p, "lock")
              /\ signal' = [signal EXCEPT ![p] = sig]
              /\ validation_result' = [validation_result EXCEPT ![p] = r]
              /\ UNCHANGED outcome
         ELSE /\ Ends(p, r.reason)
              /\ UNCHANGED <<signal, validation_result>>
    /\ UNCHANGED <<engine, pricing, socket, bridge, shared, config, on_trade_result, now, current, balance,
                   post_result, trade_result, balance_before, refreshed, posts, delivered>>

\* Faulty variant of the lock: a plain store(true) in place of the compare-exchange.
LockNoCas(p) ==
    /\ pc[p] = "lock"
    /\ is_submitting' = TRUE
    /\ Goto(p, "deduct_load")
    /\ UNCHANGED <<engine, pricing, socket, bridge, usdc_balance, trading_enabled, last_executed_at, minted_assets,
                   config, on_trade_result, now, locals, history>>

\* is_submitting.compare_exchange(false, true)
Lock(p) ==
    /\ pc[p] = "lock"
    /\ IF ~is_submitting
       THEN /\ is_submitting' = TRUE
            /\ Goto(p, "deduct_load")
            /\ UNCHANGED outcome
       ELSE /\ Ends(p, "LockLost")
            /\ UNCHANGED is_submitting
    /\ UNCHANGED <<engine, pricing, socket, bridge, usdc_balance, trading_enabled, last_executed_at, minted_assets,
                   config, on_trade_result, now, locals,
                   balance_before, refreshed, posts, delivered>>

\* try_deduct_balance: usdc_balance.load
DeductLoad(p) ==
    /\ pc[p] = "deduct_load"
    /\ current' = [current EXCEPT ![p] = usdc_balance]
    /\ Goto(p, "deduct_cas")
    /\ UNCHANGED <<engine, pricing, socket, bridge, shared, config, on_trade_result, now, signal, validation_result,
                   balance, post_result, trade_result, history>>

\* Faulty variant of the failed deduction: process_signal returns without
\* releasing the submission flag.
DeductInsufficientHeld(p) ==
    /\ pc[p] = "deduct_cas"
    /\ current[p] < validation_result[p].required_cost
    /\ Ends(p, "DeductFailed")
    /\ UNCHANGED <<engine, pricing, socket, bridge, shared, config, on_trade_result, now, locals,
                   balance_before, refreshed, posts, delivered>>

\* try_deduct_balance returns false; process_signal releases the flag and returns.
DeductInsufficient(p) ==
    /\ pc[p] = "deduct_cas"
    /\ current[p] < validation_result[p].required_cost
    /\ is_submitting' = FALSE
    /\ Ends(p, "DeductFailed")
    /\ UNCHANGED <<engine, pricing, socket, bridge, usdc_balance, trading_enabled, last_executed_at, minted_assets,
                   config, on_trade_result, now, locals,
                   balance_before, refreshed, posts, delivered>>

\* The balance a successful compare-exchange stores.
deducted_balance(cur, amount) == cur - amount

\* Faulty variant of the deduction: a plain store of current - amount, whatever
\* the balance holds by then.
DeductStore(p) ==
    /\ pc[p] = "deduct_cas"
    /\ current[p] >= validation_result[p].required_cost
    /\ usdc_balance' = deducted_balance(current[p], validation_result[p].required_cost)
    /\ balance_before' = [balance_before EXCEPT ![p] = current[p]]
    /\ Goto(p, "stamp")
    /\ UNCHANGED <<engine, pricing, socket, bridge, trading_enabled, is_submitting, last_executed_at, minted_assets,
                   config, on_trade_result, now, locals, outcome, refreshed, posts, delivered>>

\* compare_exchange_weak succeeds: the balance still holds the loaded bits.
DeductCas(p) ==
    /\ pc[p] = "deduct_cas"
    /\ current[p] >= validation_result[p].required_cost
    /\ usdc_balance = current[p]
    /\ usdc_balance' = deducted_balance(current[p], validation_result[p].required_cost)
    /\ balance_before' = [balance_before EXCEPT ![p] = current[p]]
    /\ Goto(p, "stamp")
    /\ UNCHANGED <<engine, pricing, socket, bridge, trading_enabled, is_submitting, last_executed_at, minted_assets,
                   config, on_trade_result, now, locals, outcome, refreshed, posts, delivered>>

\* compare_exchange_weak fails (the balance moved, or spuriously): load again.
DeductRetry(p) ==
    /\ pc[p] = "deduct_cas"
    /\ current[p] >= validation_result[p].required_cost
    /\ Goto(p, "deduct_load")
    /\ UNCHANGED <<engine, pricing, socket, bridge, shared, config, on_trade_result, now, locals, history>>

\* last_executed_at.store(now_ms); prepare_batch_orders; sign_batch_orders;
\* signed orders go out with post_batch_orders, a signing error turns to the restore.
Stamp(p) ==
    /\ pc[p] = "stamp"
    /\ last_executed_at' = now
    /\ IF sign_batch_orders_ok(prepare_batch_orders(validation_result[p].candidates))
       THEN /\ Goto(p, "post_await")
            /\ posts' = [posts EXCEPT ![p] = @ + 1]
       ELSE /\ Goto(p, "sign_restore_get")
            /\ UNCHANGED posts
    /\ UNCHANGED <<engine, pricing, socket, bridge, usdc_balance, trading_enabled, is_submitting, minted_assets,
                   config, on_trade_result, now, locals,
                   outcome, balance_before, refreshed, delivered>>

\* let balance = get_balance()
RestoreGet(p) ==
    /\ pc[p] \in {"sign_restore_get", "post_restore_get"}
    /\ balance' = [balance EXCEPT ![p] = get_balance]
    /\ Goto(p, IF pc[p] = "sign_restore_get" THEN "sign_restore_set" ELSE "post_restore_set")
    /\ UNCHANGED <<engine, pricing, socket, bridge, shared, config, on_trade_result, now, signal, validation_result,
                   current, post_result, trade_result, history>>

\* set_balance(balance + required_cost)
RestoreSet(p) ==
    /\ pc[p] \in {"sign_restore_set", "post_restore_set"}
    /\ usdc_balance' = restored_balance(balance[p], validation_result[p].required_cost)
    /\ Goto(p, IF pc[p] = "sign_restore_set" THEN "sign_release" ELSE "emit")
    /\ UNCHANGED <<engine, pricing, socket, bridge, trading_enabled, is_submitting, last_executed_at, minted_assets,
                   config, on_trade_result, now, locals, history>>

\* Faulty variant of the signing-error path: it returns with the flag still set.
SignReturn(p) ==
    /\ pc[p] = "sign_release"
    /\ Ends(p, "SignFailed")
    /\ UNCHANGED <<engine, pricing, socket, bridge, shared, config, on_trade_result, now, locals,
                   balance_before, refreshed, posts, delivered>>

\* The signing-error path releases the flag and returns.
SignRelease(p) ==
    /\ pc[p] = "sign_release"
    /\ is_submitting' = FALSE
    /\ Ends(p, "SignFailed")
    /\ UNCHANGED <<engine, pricing, socket, bridge, usdc_balance, trading_enabled, last_executed_at, minted_assets,
                   config, on_trade_result, now, locals,
                   balance_before, refreshed, posts, delivered>>

\* post_batch_orders(...).await completes: the flag is released and the order
\* ids and failed orders are collected.  Or the task panics inside the call.
PostReturn(p, https) ==
    /\ pc[p] = "post_await"
    /\ \E http \in https :
         IF post_panics(http)
         THEN /\ Goto(p, "panicked")
              /\ outcome' = [outcome EXCEPT ![p] = "Panicked"]
              /\ UNCHANGED <<is_submitting, post_result, trade_result>>
         ELSE LET pr == post_batch_orders(
                            prepare_batch_orders(validation_result[p].candidates), http)
              IN  /\ is_submitting' = FALSE
                  /\ post_result' = [post_result EXCEPT ![p] = pr]
                  /\ trade_result' = [trade_result EXCEPT ![p] =
                        build_trade_result(signal[p], validation_result[p], pr)]
                  /\ Goto(p, IF pr.success THEN "deduct_minted" ELSE "post_restore_get")
                  /\ UNCHANGED outcome
    /\ UNCHANGED <<engine, pricing, socket, bridge, usdc_balance, trading_enabled, last_executed_at, minted_assets,
                   config, on_trade_result, now, signal, validation_result,
                   current, balance, balance_before, refreshed, posts, delivered>>

\* A 2xx batch deducts the minted assets of its accepted SELL legs.
DeductMinted(p) ==
    /\ pc[p] = "deduct_minted"
    /\ minted_assets' =
          deduct_sold(minted_assets, signal[p].group_key,
                      validation_result[p].candidates, post_result[p].responses,
                      validation_result[p].size, 1)
    /\ Goto(p, "emit")
    /\ UNCHANGED <<engine, pricing, socket, bridge, usdc_balance, trading_enabled, is_submitting, last_executed_at,
                   config, on_trade_result, now, locals, history>>

\* Faulty variant of the emit: only successful results reach the callback.
emit_successes(calls, result) ==
    IF on_trade_result /\ result.success THEN Append(calls, result) ELSE calls

\* registry.emit_trade_result(trade_result): the callback, when one is registered.
emit_trade_result(calls, result) ==
    IF on_trade_result THEN Append(calls, result) ELSE calls

EmitTradeResult(p) ==
    /\ pc[p] = "emit"
    /\ delivered' = [delivered EXCEPT ![p] = emit_trade_result(@, trade_result[p])]
    /\ Ends(p, IF post_result[p].success THEN "Posted" ELSE "PostFailed")
    /\ UNCHANGED <<engine, pricing, socket, bridge, shared, config, on_trade_result, now, locals,
                   balance_before, refreshed, posts>>

\* Back at rx.recv(): the invocation's locals are gone.
Loop(p) ==
    /\ pc[p] = "done"
    /\ Goto(p, "recv")
    /\ signal' = [signal EXCEPT ![p] = NoSignal]
    /\ validation_result' = [validation_result EXCEPT ![p] = NoValidation]
    /\ current' = [current EXCEPT ![p] = 0]
    /\ balance' = [balance EXCEPT ![p] = 0]
    /\ post_result' = [post_result EXCEPT ![p] = NoPostResult]
    /\ trade_result' = [trade_result EXCEPT ![p] = NoTradeResult]
    /\ outcome' = [outcome EXCEPT ![p] = ""]
    /\ balance_before' = [balance_before EXCEPT ![p] = 0]
    /\ refreshed' = [refreshed EXCEPT ![p] = FALSE]
    /\ posts' = [posts EXCEPT ![p] = 0]
    /\ delivered' = [delivered EXCEPT ![p] = << >>]
    /\ UNCHANGED <<engine, pricing, socket, bridge, shared, config, on_trade_result, now>>

ProcessSignal(p, sigs, https) ==
    \/ Validate(p, sigs)
    \/ Lock(p)
    \/ DeductLoad(p)
    \/ DeductInsufficient(p)
    \/ DeductCas(p)
    \/ DeductRetry(p)
    \/ Stamp(p)
    \/ RestoreGet(p)
    \/ RestoreSet(p)
    \/ SignRelease(p)
    \/ PostReturn(p, https)
    \/ DeductMinted(p)
    \/ EmitTradeResult(p)
    \/ Loop(p)

Host ==
    \/ \E b \in BalancePushes : update_balance(b)
    \/ \E e \in BOOLEAN : set_trading_enabled(e)
    \/ \E g \in Groups, a \in AssetMaps : update_minted_assets(g, a)
    \/ set_on_trade_result
    \/ Tick

\* ================================================================ the engine
\* Engine prices are f64 in the source; here a price is a count of thousandths
\* (Milli steps per 1.0), and a quote that was never set is NaN.
Milli == 1000
NaN == -2

\* Faulty variant of the default slot: free quotes in place of missing ones.
PriceSlotZero ==
    [ best_bid |-> 0, best_ask |-> 0, best_bid_size |-> 0, best_ask_size |-> 0,
      timestamp_ms |-> 0 ]

PriceSlotDefault ==
    [ best_bid |-> NaN, best_ask |-> NaN, best_bid_size |-> 0, best_ask_size |-> 0,
      timestamp_ms |-> 0 ]

\* A function with one more (or one replaced) key.
Insert(map, key, value) ==
    [ k \in DOMAIN map \cup {key} |-> IF k = key THEN value ELSE map[k] ]

EmptyMap == [ k \in {} |-> 0 ]

\* alloc_slot numbering a new slot one past the end of the table.
alloc_slot_past_end(pt, token_id) ==
    IF token_id \in DOMAIN pt.token_to_slot
    THEN [ slot |-> pt.token_to_slot[token_id], pt |-> pt ]
    ELSE [ slot |-> Len(pt.slots) + 1,
           pt |-> [ slots |-> Append(pt.slots, PriceSlotDefault),
                    token_to_slot |-> Insert(pt.token_to_slot, token_id,
                                             Len(pt.slots) + 1) ] ]

\* PriceTable::alloc_slot on the table pt = [slots, token_to_slot]: the slot of
\* the token (slots are numbered from 0), allocated when the token has none.
alloc_slot(pt, token_id) ==
    IF token_id \in DOMAIN pt.token_to_slot
    THEN [ slot |-> pt.token_to_slot[token_id], pt |-> pt ]
    ELSE [ slot |-> Len(pt.slots),
           pt |-> [ slots |-> Append(pt.slots, PriceSlotDefault),
                    token_to_slot |-> Insert(pt.token_to_slot, token_id, Len(pt.slots)) ] ]

\* MarketKind::from_str
MarketKind_from_str(s) ==
    IF s = "above" THEN "Above" ELSE IF s = "below" THEN "Below" ELSE "Range"

\* The metas of the descriptors that have two token ids, each with its YES and NO
\* slot allocated in order; the result is [metas, pt].
RECURSIVE build_metas(_, _, _)
build_metas(inputs, metas, pt) ==
    IF inputs = << >> THEN [ metas |-> metas, pt |-> pt ]
    ELSE LET c == Head(inputs) IN
         IF Len(c.clob_token_ids) < 2 THEN build_metas(Tail(inputs), metas, pt)
         ELSE LET y == alloc_slot(pt, c.clob_token_ids[1])
                  n == alloc_slot(y.pt, c.clob_token_ids[2])
                  meta == [ market_id |-> c.market_id,
                            clob_token_ids |-> << c.clob_token_ids[1], c.clob_token_ids[2] >>,
                            bounds_lower |-> c.bounds_lower,
                            bounds_upper |-> c.bounds_upper,
                            kind |-> MarketKind_from_str(c.kind),
                            neg_risk |-> c.neg_risk,
                            yes_slot |-> y.slot,
                            no_slot |-> n.slot ]
              IN  build_metas(Tail(inputs), Append(metas, meta), n.pt)

\* range_lower_map: lower bound -> index (from 0) of the range child that was
\* inserted last under that bound.
RECURSIVE range_lower_map(_, _, _)
range_lower_map(child_metas, i, map) ==
    IF i > Len(child_metas) THEN map
    ELSE range_lower_map(child_metas, i + 1,
            IF /\ child_metas[i].kind = "Range"
               /\ IsSome(child_metas[i].bounds_lower)
               /\ IsSome(child_metas[i].bounds_upper)
            THEN Insert(map, child_metas[i].bounds_lower, i - 1)
            ELSE map)

\* Faulty variant of Push: the value replaces what the key held.
Push_replacing(map, key, value) == Insert(map, key, << value >>)

\* entry(key).or_default().push(value)
Push(map, key, value) ==
    Insert(map, key, (IF key \in DOMAIN map THEN map[key] ELSE << >>) \o << value >>)

RECURSIVE PushAll(_, _, _)
PushAll(map, keys, value) ==
    IF keys = << >> THEN map
    ELSE PushAll(Push(map, Head(keys), value), Tail(keys), value)

\* The trio of the adjacent parents at lower_idx and lower_idx + 1 (from 0), or
\* none: both Above with a lower bound, a range child stored under the lower
\* parent's bound whose upper bound is the upper parent's, and no empty leg token.
trio_of_pair(child_metas, parent_metas, map, lower_idx) ==
    LET lower == parent_metas[lower_idx + 1]
        upper == parent_metas[lower_idx + 2]
    IN  IF lower.kind # "Above" \/ upper.kind # "Above" THEN << >>
        ELSE IF ~IsSome(lower.bounds_lower) \/ ~IsSome(upper.bounds_lower) THEN << >>
        ELSE IF lower.bounds_lower \notin DOMAIN map THEN << >>
        ELSE LET range_idx == map[lower.bounds_lower]
                 range_child == child_metas[range_idx + 1]
             IN  IF range_child.bounds_upper # upper.bounds_lower THEN << >>
                 ELSE IF \/ lower.clob_token_ids[1] = ""
                         \/ upper.clob_token_ids[2] = ""
                         \/ range_child.clob_token_ids[2] = ""
                 THEN << >>
                 ELSE << [ parent_lower_idx |-> lower_idx,
                           parent_upper_idx |-> lower_idx + 1,
                           range_idx |-> range_idx,
                           lower_yes_slot |-> lower.yes_slot,
                           upper_no_slot |-> upper.no_slot,
                           range_no_slot |-> range_child.no_slot,
                           lower_yes_token |-> lower.clob_token_ids[1],
                           upper_no_token |-> upper.clob_token_ids[2],
                           range_no_token |-> range_child.clob_token_ids[2],
                           last_emitted_buy_ms |-> 0,
                           last_emitted_unbundle_ms |-> 0,
                           last_emitted_bundle_ms |-> 0 ] >>

\* initialize_trio_states: [trios, trio_lookup] over the adjacent parent pairs.
RECURSIVE initialize_trio_states(_, _, _, _, _, _)
initialize_trio_states(child_metas, parent_metas, map, lower_idx, trios, trio_lookup) ==
    IF lower_idx + 1 >= Len(parent_metas)
    THEN [ trios |-> trios, trio_lookup |-> trio_lookup ]
    ELSE LET t == trio_of_pair(child_metas, parent_metas, map, lower_idx) IN
         IF t = << >>
         THEN initialize_trio_states(child_metas, parent_metas, map, lower_idx + 1,
                                     trios, trio_lookup)
         ELSE initialize_trio_states(child_metas, parent_metas, map, lower_idx + 1,
                 Append(trios, t[1]),
                 PushAll(trio_lookup,
                         << t[1].lower_yes_token, t[1].upper_no_token, t[1].range_no_token,
                            parent_metas[lower_idx + 2].clob_token_ids[1],
                            child_metas[t[1].range_idx + 1].clob_token_ids[1] >>,
                         Len(trios)))

\* The dispatch roles of one group: RangeChild for each child's YES token, Parent
\* for each parent's YES token, TrioLeg for the three leg tokens of each trio.
RECURSIVE index_metas(_, _, _, _, _)
index_metas(index, metas, kind, group_idx, i) ==
    IF i > Len(metas) THEN index
    ELSE index_metas(
            Push(index, metas[i].clob_token_ids[1],
                 [ kind |-> kind, group_idx |-> group_idx, idx |-> i - 1, role |-> "" ]),
            metas, kind, group_idx, i + 1)

RECURSIVE index_trios(_, _, _, _)
index_trios(index, trios, group_idx, i) ==
    IF i > Len(trios) THEN index
    ELSE index_trios(
            Push(Push(Push(index,
                 trios[i].lower_yes_token,
                 [ kind |-> "TrioLeg", group_idx |-> group_idx, idx |-> i - 1,
                   role |-> "ParentLowerYes" ]),
                 trios[i].upper_no_token,
                 [ kind |-> "TrioLeg", group_idx |-> group_idx, idx |-> i - 1,
                   role |-> "ParentUpperNo" ]),
                 trios[i].range_no_token,
                 [ kind |-> "TrioLeg", group_idx |-> group_idx, idx |-> i - 1,
                   role |-> "RangeNo" ]),
            trios, group_idx, i + 1)

\* update_market_structure on an emptied engine, group by group: the engine
\* record e = [pt, groups, token_index, total_trios] after the remaining inputs.
RECURSIVE build_groups(_, _)
build_groups(groups_input, e) ==
    IF groups_input = << >> THEN e
    ELSE LET g == Head(groups_input)
             group_idx == Len(e.groups)
             children == build_metas(g.children, << >>, e.pt)
             parents == build_metas(g.parents, << >>, children.pt)
             init == initialize_trio_states(
                         children.metas, parents.metas,
                         range_lower_map(children.metas, 1, EmptyMap), 0, << >>, EmptyMap)
             index == index_trios(
                         index_metas(
                             index_metas(e.token_index, children.metas, "RangeChild",
                                         group_idx, 1),
                             parents.metas, "Parent", group_idx, 1),
                         init.trios, group_idx, 1)
         IN  build_groups(Tail(groups_input),
                [ pt |-> parents.pt,
                  groups |-> Append(e.groups,
                      [ group_key |-> g.group_key,
                        child_metas |-> children.metas,
                        parent_metas |-> parents.metas,
                        trio_states |-> init.trios,
                        trio_lookup_by_asset |-> init.trio_lookup ]),
                  token_index |-> index,
                  total_trios |-> e.total_trios + Len(init.trios) ])

EngineEmpty ==
    [ pt |-> [ slots |-> << >>, token_to_slot |-> EmptyMap ],
      groups |-> << >>, token_index |-> EmptyMap, total_trios |-> 0 ]

\* A TopOfBookUpdate as handle_top_of_book takes it.
TopOfBook(asset_id, bid, ask, bid_size, ask_size, timestamp_ms) ==
    [ asset_id |-> asset_id, best_bid |-> bid, best_ask |-> ask,
      best_bid_size |-> bid_size, best_ask_size |-> ask_size,
      timestamp_ms |-> timestamp_ms ]

NoUpdate == TopOfBook("", NaN, NaN, NoneVal, NoneVal, 0)

\* What a call of update_market_structure threw away (history): the dirty-check
\* cache, and whether a trio had emitted.
NothingDiscarded == [ cache |-> EmptyMap, stamped |-> FALSE ]

Stamped(gs) ==
    \E g \in 1..Len(gs) : \E i \in 1..Len(gs[g].trio_states) :
        \/ gs[g].trio_states[i].last_emitted_buy_ms > 0
        \/ gs[g].trio_states[i].last_emitted_unbundle_ms > 0
        \/ gs[g].trio_states[i].last_emitted_bundle_ms > 0

\* Faulty variant of update_market_structure: the dirty-check cache survives.
update_market_structure_keeping_cache(groups_input) ==
    LET e == build_groups(groups_input, EngineEmpty) IN
    /\ slots' = e.pt.slots
    /\ token_to_slot' = e.pt.token_to_slot
    /\ groups' = e.groups
    /\ token_index' = e.token_index
    /\ last_price_cache' = last_price_cache
    /\ call' = [ op |-> "update_market_structure", groups_input |-> groups_input,
                 update |-> NoUpdate,
                 discarded |-> [ cache |-> last_price_cache, stamped |-> Stamped(groups) ] ]
    /\ returned' = [ trio_count |-> e.total_trios, signals |-> << >> ]
    /\ emitted' = EmptyMap
    /\ UNCHANGED <<engine_config, now, executor, pricing, socket, bridge>>

\* EngineState::update_market_structure under the engine mutex.
update_market_structure(groups_input) ==
    LET e == build_groups(groups_input, EngineEmpty) IN
    /\ slots' = e.pt.slots
    /\ token_to_slot' = e.pt.token_to_slot
    /\ groups' = e.groups
    /\ token_index' = e.token_index
    /\ last_price_cache' = EmptyMap
    /\ call' = [ op |-> "update_market_structure", groups_input |-> groups_input,
                 update |-> NoUpdate,
                 discarded |-> [ cache |-> last_price_cache, stamped |-> Stamped(groups) ] ]
    /\ returned' = [ trio_count |-> e.total_trios, signals |-> << >> ]
    /\ emitted' = EmptyMap
    /\ UNCHANGED <<engine_config, now, executor, pricing, socket, bridge>>

\* `==` on two f64: a NaN equals nothing, itself included.
f64_eq(a, b) == a # NaN /\ b # NaN /\ a = b

\* is_price_changed skipping only the strictly older updates.
is_price_changed_older(cache, u) ==
    IF /\ u.asset_id \in DOMAIN cache
       /\ cache[u.asset_id].timestamp_ms > 0
       /\ u.timestamp_ms > 0
       /\ u.timestamp_ms < cache[u.asset_id].timestamp_ms
    THEN [ changed |-> FALSE, cache |-> cache ]
    ELSE IF /\ u.asset_id \in DOMAIN cache
            /\ f64_eq(cache[u.asset_id].bid, u.best_bid)
            /\ f64_eq(cache[u.asset_id].ask, u.best_ask)
    THEN [ changed |-> FALSE,
           cache |-> IF u.timestamp_ms > 0
                     THEN [cache EXCEPT ![u.asset_id].timestamp_ms = u.timestamp_ms]
                     ELSE cache ]
    ELSE [ changed |-> TRUE,
           cache |-> Insert(cache, u.asset_id,
                            [ bid |-> u.best_bid, ask |-> u.best_ask,
                              timestamp_ms |-> u.timestamp_ms ]) ]

\* ------------------------------------------------------- the dirty check
\* is_price_changed: [changed, cache] for an update u against the cache.
is_price_changed(cache, u) ==
    IF /\ u.asset_id \in DOMAIN cache
       /\ cache[u.asset_id].timestamp_ms > 0
       /\ u.timestamp_ms > 0
       /\ u.timestamp_ms <= cache[u.asset_id].timestamp_ms
    THEN [ changed |-> FALSE, cache |-> cache ]
    ELSE IF /\ u.asset_id \in DOMAIN cache
            /\ f64_eq(cache[u.asset_id].bid, u.best_bid)
            /\ f64_eq(cache[u.asset_id].ask, u.best_ask)
    THEN [ changed |-> FALSE,
           cache |-> IF u.timestamp_ms > 0
                     THEN [cache EXCEPT ![u.asset_id].timestamp_ms = u.timestamp_ms]
                     ELSE cache ]
    ELSE [ changed |-> TRUE,
           cache |-> Insert(cache, u.asset_id,
                            [ bid |-> u.best_bid, ask |-> u.best_ask,
                              timestamp_ms |-> u.timestamp_ms ]) ]

\* PriceTable::update: the sizes are written only when the update has them.
PriceTable_update(table, slot, u) ==
    [ table EXCEPT ![slot + 1] =
        [ best_bid |-> u.best_bid,
          best_ask |-> u.best_ask,
          best_bid_size |-> IF IsSome(u.best_bid_size) THEN u.best_bid_size
                            ELSE @.best_bid_size,
          best_ask_size |-> IF IsSome(u.best_ask_size) THEN u.best_ask_size
                            ELSE @.best_ask_size,
          timestamp_ms |-> u.timestamp_ms ] ]

\* PriceTable::get
PriceTable_get(table, slot) == table[slot + 1]

\* ---------------------------------------------------------- the evaluators
NoSig == << >>

\* profit_bps >= min_profit_bps with profit_bps = profit / base * 10000, the
\* division cleared for a base >= 0 (a zero base makes the quotient infinite
\* with the sign of the profit).
bps_meets(profit, base, cfg) ==
    IF base > 0 THEN profit * 10000 >= cfg.min_profit_bps * base
    ELSE profit > 0

\* calc_trio_profit_only without the absolute threshold.
calc_trio_profit_bps_only(trio, table, cfg) ==
    LET ly == PriceTable_get(table, trio.lower_yes_slot)
        un == PriceTable_get(table, trio.upper_no_slot)
        rn == PriceTable_get(table, trio.range_no_slot)
        total_ask == ly.best_ask + un.best_ask + rn.best_ask
        total_bid == ly.best_bid + un.best_bid + rn.best_bid
        profit_buy == 2 * Milli - total_ask
    IN  IF \/ ly.best_ask = NaN \/ un.best_ask = NaN \/ rn.best_ask = NaN
           \/ ly.best_bid = NaN \/ un.best_bid = NaN \/ rn.best_bid = NaN
        THEN NoSig
        ELSE IF ~bps_meets(profit_buy, total_ask, cfg)
        THEN NoSig
        ELSE << [ total_ask |-> total_ask, total_bid |-> total_bid,
                  profit_abs |-> profit_buy, payout |-> 2 * Milli ] >>

\* calc_trio_profit_only: the triangle's profit, or none when a quote is
\* missing or a threshold is not met.
calc_trio_profit_only(trio, table, cfg) ==
    LET ly == PriceTable_get(table, trio.lower_yes_slot)
        un == PriceTable_get(table, trio.upper_no_slot)
        rn == PriceTable_get(table, trio.range_no_slot)
        total_ask == ly.best_ask + un.best_ask + rn.best_ask
        total_bid == ly.best_bid + un.best_bid + rn.best_bid
        profit_buy == 2 * Milli - total_ask
    IN  IF \/ ly.best_ask = NaN \/ un.best_ask = NaN \/ rn.best_ask = NaN
           \/ ly.best_bid = NaN \/ un.best_bid = NaN \/ rn.best_bid = NaN
        THEN NoSig
        ELSE IF ~(profit_buy >= cfg.min_profit_abs /\ bps_meets(profit_buy, total_ask, cfg))
        THEN NoSig
        ELSE << [ total_ask |-> total_ask, total_bid |-> total_bid,
                  profit_abs |-> profit_buy, payout |-> 2 * Milli ] >>

\* Faulty variant of the cooldown test: the end of the window is still inside.
in_cooldown_inclusive(last_emitted, cfg, now_ms) ==
    last_emitted > 0 /\ now_ms - last_emitted <= cfg.cooldown_ms

\* The cooldown test of the evaluators on a trio's stamp.
in_cooldown(last_emitted, cfg, now_ms) ==
    last_emitted > 0 /\ now_ms - last_emitted < cfg.cooldown_ms

\* The ArbSignal of a trio: its three legs' tokens and quotes.
ArbSignal(group, strategy, profit_abs, now_ms, parent, parent_upper, child, parent_token, parent_upper_token, child_token, total_cost, total_bid, payout) ==
    [ group_key |-> group.group_key, strategy |-> strategy,
      profit_abs |-> profit_abs, timestamp_ms |-> now_ms,
      parent_asset_id |-> parent_token,
      parent_best_bid |-> parent.best_bid, parent_best_ask |-> parent.best_ask,
      parent_upper_asset_id |-> parent_upper_token,
      parent_upper_best_bid |-> parent_upper.best_bid,
      parent_upper_best_ask |-> parent_upper.best_ask,
      child_asset_id |-> child_token,
      child_best_bid |-> child.best_bid, child_best_ask |-> child.best_ask,
      triangle_total_cost |-> total_cost, triangle_total_bid |-> total_bid,
      triangle_payout |-> payout ]

\* evaluate_single_trio on trio trio_idx (from 0) of a group:
\* [signal, group], the group with the trio's stamp set when a signal is built.
evaluate_single_trio(group, trio_idx, table, cfg, now_ms) ==
    LET trio == group.trio_states[trio_idx + 1]
        calc == calc_trio_profit_only(trio, table, cfg)
    IN  IF calc = NoSig THEN [ signal |-> NoSig, group |-> group ]
        ELSE IF in_cooldown(trio.last_emitted_buy_ms, cfg, now_ms)
        THEN [ signal |-> NoSig, group |-> group ]
        ELSE [ signal |->
                 << ArbSignal(group, "POLYMARKET_TRIANGLE_BUY", calc[1].profit_abs, now_ms,
                              PriceTable_get(table, trio.lower_yes_slot),
                              PriceTable_get(table, trio.upper_no_slot),
                              PriceTable_get(table, trio.range_no_slot),
                              trio.lower_yes_token, trio.upper_no_token, trio.range_no_token,
                              calc[1].total_ask, calc[1].total_bid, calc[1].payout) >>,
               group |-> [group EXCEPT
                            !.trio_states[trio_idx + 1].last_emitted_buy_ms = now_ms] ]

\* The three YES slots the range evaluators read.
RangeSlots(group, trio, table) ==
    [ parent_lower |->
          PriceTable_get(table, group.parent_metas[trio.parent_lower_idx + 1].yes_slot),
      parent_upper |->
          PriceTable_get(table, group.parent_metas[trio.parent_upper_idx + 1].yes_slot),
      range_child |->
          PriceTable_get(table, group.child_metas[trio.range_idx + 1].yes_slot) ]

build_range_signal(group, trio, strategy, profit_abs, now_ms, s) ==
    ArbSignal(group, strategy, profit_abs, now_ms,
              s.parent_lower, s.parent_upper, s.range_child,
              group.parent_metas[trio.parent_lower_idx + 1].clob_token_ids[1],
              group.parent_metas[trio.parent_upper_idx + 1].clob_token_ids[1],
              group.child_metas[trio.range_idx + 1].clob_token_ids[1],
              NoneVal, NoneVal, NoneVal)

\* evaluate_unbundling: sell the lower parent's YES, buy the range's and the
\* upper parent's YES.
evaluate_unbundling(group, trio_idx, table, cfg, now_ms) ==
    LET trio == group.trio_states[trio_idx + 1]
        s == RangeSlots(group, trio, table)
        cost == s.range_child.best_ask + s.parent_upper.best_ask
        profit_abs == s.parent_lower.best_bid - cost
    IN  IF \/ s.parent_lower.best_bid = NaN \/ s.range_child.best_ask = NaN
           \/ s.parent_upper.best_ask = NaN
        THEN [ signal |-> NoSig, group |-> group ]
        ELSE IF \/ profit_abs < cfg.min_profit_abs
                \/ (IF cost > 0 THEN profit_abs * 10000 < cfg.min_profit_bps * cost
                    ELSE 0 < cfg.min_profit_bps)
        THEN [ signal |-> NoSig, group |-> group ]
        ELSE IF in_cooldown(trio.last_emitted_unbundle_ms, cfg, now_ms)
        THEN [ signal |-> NoSig, group |-> group ]
        ELSE [ signal |-> << build_range_signal(group, trio, "SELL_PARENT_BUY_CHILDREN",
                                                profit_abs, now_ms, s) >>,
               group |-> [group EXCEPT
                            !.trio_states[trio_idx + 1].last_emitted_unbundle_ms = now_ms] ]

\* evaluate_bundling: buy the lower parent's YES, sell the range's and the
\* upper parent's YES.
evaluate_bundling(group, trio_idx, table, cfg, now_ms) ==
    LET trio == group.trio_states[trio_idx + 1]
        s == RangeSlots(group, trio, table)
        revenue == s.range_child.best_bid + s.parent_upper.best_bid
        profit_abs == revenue - s.parent_lower.best_ask
    IN  IF \/ s.parent_lower.best_ask = NaN \/ s.range_child.best_bid = NaN
           \/ s.parent_upper.best_bid = NaN
        THEN [ signal |-> NoSig, group |-> group ]
        ELSE IF \/ profit_abs < cfg.min_profit_abs
                \/ (IF s.parent_lower.best_ask > 0
                    THEN profit_abs * 10000 < cfg.min_profit_bps * s.parent_lower.best_ask
                    ELSE 0 < cfg.min_profit_bps)
        THEN [ signal |-> NoSig, group |-> group ]
        ELSE IF in_cooldown(trio.last_emitted_bundle_ms, cfg, now_ms)
        THEN [ signal |-> NoSig, group |-> group ]
        ELSE [ signal |-> << build_range_signal(group, trio, "BUY_PARENT_SELL_CHILDREN",
                                                profit_abs, now_ms, s) >>,
               group |-> [group EXCEPT
                            !.trio_states[trio_idx + 1].last_emitted_bundle_ms = now_ms] ]

\* evaluate_trios_for_range_arbitrage: unbundling, then bundling, on each of the
\* trios named; [signals, group].
RECURSIVE evaluate_trios_for_range_arbitrage(_, _, _, _, _, _)
evaluate_trios_for_range_arbitrage(group, trio_indices, table, cfg, now_ms, signals) ==
    IF trio_indices = << >> THEN [ signals |-> signals, group |-> group ]
    ELSE IF Head(trio_indices) >= Len(group.trio_states)
    THEN evaluate_trios_for_range_arbitrage(group, Tail(trio_indices), table, cfg, now_ms,
                                            signals)
    ELSE LET u == evaluate_unbundling(group, Head(trio_indices), table, cfg, now_ms)
             b == evaluate_bundling(u.group, Head(trio_indices), table, cfg, now_ms)
         IN  evaluate_trios_for_range_arbitrage(b.group, Tail(trio_indices), table, cfg,
                                                now_ms, signals \o u.signal \o b.signal)

\* ------------------------------------------------------ handle_top_of_book
\* The trio and strategy a signal is for: its group, its lower parent's YES
\* token and its strategy.
SignalKey(sig) == << sig.group_key, sig.parent_asset_id, sig.strategy >>

\* When a trio and strategy last emitted, 0 if it never did.
LastEmitted(map, key) == IF key \in DOMAIN map THEN map[key] ELSE 0

\* The record of when each trio and strategy last emitted, after these signals.
RECURSIVE record_emitted(_, _)
record_emitted(map, signals) ==
    IF signals = << >> THEN map
    ELSE record_emitted(Insert(map, SignalKey(Head(signals)), Head(signals).timestamp_ms),
                        Tail(signals))

\* The dispatch loop over the token's roles: a TrioLeg role evaluates its trio,
\* the RangeChild and Parent roles evaluate nothing; [signals, groups].
RECURSIVE dispatch_roles(_, _, _, _, _, _)
dispatch_roles(roles, gs, table, cfg, now_ms, signals) ==
    IF roles = << >> THEN [ signals |-> signals, groups |-> gs ]
    ELSE LET role == Head(roles) IN
         IF role.kind = "TrioLeg" /\ role.group_idx < Len(gs)
         THEN LET r == evaluate_single_trio(gs[role.group_idx + 1], role.idx, table, cfg,
                                            now_ms)
              IN  dispatch_roles(Tail(roles), [gs EXCEPT ![role.group_idx + 1] = r.group],
                                 table, cfg, now_ms, signals \o r.signal)
         ELSE dispatch_roles(Tail(roles), gs, table, cfg, now_ms, signals)

\* handle_top_of_book on the engine as it is now: the signals it returns and the
\* slots, cache and groups it leaves.
handle_top_of_book(u) ==
    LET dirty == is_price_changed(last_price_cache, u) IN
    IF ~dirty.changed
    THEN [ signals |-> << >>, slots |-> slots, cache |-> dirty.cache, groups |-> groups ]
    ELSE IF u.asset_id \notin DOMAIN token_to_slot
    THEN [ signals |-> << >>, slots |-> slots, cache |-> dirty.cache, groups |-> groups ]
    ELSE LET table == PriceTable_update(slots, token_to_slot[u.asset_id], u) IN
         IF u.asset_id \notin DOMAIN token_index
         THEN [ signals |-> << >>, slots |-> table, cache |-> dirty.cache,
                groups |-> groups ]
         ELSE LET d == dispatch_roles(token_index[u.asset_id], groups, table,
                                      engine_config, now, << >>)
              IN  [ signals |-> d.signals, slots |-> table, cache |-> dirty.cache,
                    groups |-> d.groups ]

\* mpsc::channel::<ArbSignal>(16)
CHANNEL_CAPACITY == 16

\* Faulty variant of the hand-over: the signal is queued whatever the channel holds.
try_send_unbounded(queue, sig) == Append(queue, sig)

\* Sender::try_send: the signal is queued when the channel has room and
\* refused (and dropped by the caller) when it is full; it never waits.
try_send(queue, sig) ==
    IF Len(queue) < CHANNEL_CAPACITY THEN Append(queue, sig) ELSE queue

\* `for signal in signals { let _ = tx.try_send(signal); }`
RECURSIVE dispatch_signals(_, _)
dispatch_signals(queue, signals) ==
    IF signals = << >> THEN queue
    ELSE dispatch_signals(try_send(queue, Head(signals)), Tail(signals))

\* executor_loop's rx.recv(): the oldest queued signal leaves the channel and
\* process_signal starts on it.
ExecutorRecv(p) ==
    /\ pc[p] = "recv"
    /\ executor_rx # << >>
    /\ executor_rx' = Tail(executor_rx)
    /\ Goto(p, "processing")
    /\ UNCHANGED <<engine, pricing, socket, executor_state, executor_init, batch, shared, config,
                   on_trade_result, now, locals, history>>

\* process_signal returns, however long it took, and the loop is back at recv.
ExecutorReturns(p) ==
    /\ pc[p] = "processing"
    /\ Goto(p, "recv")
    /\ UNCHANGED <<engine, pricing, socket, bridge, shared, config, on_trade_result, now,
                   locals, history>>

\* The engine dispatcher task takes one update off the socket channel, hands it
\* to the engine and offers the signals to the executor's channel, if there is one.
HandleTopOfBook(u) ==
    LET r == handle_top_of_book(u) IN
    /\ slots' = r.slots
    /\ last_price_cache' = r.cache
    /\ groups' = r.groups
    /\ call' = [ op |-> "handle_top_of_book", groups_input |-> << >>, update |-> u,
                 discarded |-> NothingDiscarded ]
    /\ returned' = [ trio_count |-> 0, signals |-> r.signals ]
    /\ emitted' = record_emitted(emitted, r.signals)
    /\ executor_rx' = IF executor_state THEN dispatch_signals(executor_rx, r.signals)
                      ELSE executor_rx
    /\ UNCHANGED <<token_to_slot, token_index, engine_config, now, executor, pricing, socket,
                   executor_state, executor_init, batch>>

\* A caller of the range evaluator's public entry point on group g (from 0),
\* for the trios the token is indexed under.
EvaluateRange(g, asset_id) ==
    /\ g < Len(groups)
    /\ asset_id \in DOMAIN groups[g + 1].trio_lookup_by_asset
    /\ LET r == evaluate_trios_for_range_arbitrage(
                    groups[g + 1], groups[g + 1].trio_lookup_by_asset[asset_id],
                    slots, engine_config, now, << >>)
       IN  /\ groups' = [groups EXCEPT ![g + 1] = r.group]
           /\ call' = [ op |-> "evaluate_trios_for_range_arbitrage",
                        groups_input |-> << >>,
                        update |-> TopOfBook(asset_id, NaN, NaN, NoneVal, NoneVal, 0),
                        discarded |-> NothingDiscarded ]
           /\ returned' = [ trio_count |-> 0, signals |-> r.signals ]
           /\ emitted' = record_emitted(emitted, r.signals)
    /\ UNCHANGED <<slots, token_to_slot, token_index, last_price_cache, engine_config,
                   now, executor, pricing, socket, bridge>>

\* update_engine_config with all three fields given.
update_engine_config(cfg) ==
    /\ engine_config' = cfg
    /\ UNCHANGED <<slots, token_to_slot, groups, token_index, last_price_cache,
                   call, returned, emitted, now, executor, pricing, socket, bridge>>

\* EngineConfig::default(): 30 bps, 0.005, 3000 ms.
EngineConfigDefault ==
    [ min_profit_bps |-> 30, min_profit_abs |-> 5, cooldown_ms |-> 3000 ]

\* EngineState::new(EngineConfig::default()), before any call.
EngineInit ==
    /\ slots = << >>
    /\ token_to_slot = EmptyMap
    /\ groups = << >>
    /\ token_index = EmptyMap
    /\ last_price_cache = EmptyMap
    /\ engine_config = EngineConfigDefault
    /\ call = [ op |-> "", groups_input |-> << >>, update |-> NoUpdate,
                discarded |-> NothingDiscarded ]
    /\ returned = [ trio_count |-> 0, signals |-> << >> ]
    /\ emitted = EmptyMap

\* ------------------------------------------------------ the engine's inputs
Market(market_id, tokens, lower, upper, kind) ==
    [ market_id |-> market_id, clob_token_ids |-> tokens, bounds_lower |-> lower,
      bounds_upper |-> upper, kind |-> kind, neg_risk |-> FALSE ]

\* Parents above 1, 2 and 3.
ParentPool ==
    { Market("above-1", << "p1y", "p1n" >>, 1, NoneVal, "above"),
      Market("above-2", << "p2y", "p2n" >>, 2, NoneVal, "above"),
      Market("above-3", << "p3y", "p3n" >>, 3, NoneVal, "above") }

\* Parents that build no trio: one below 2, one with a single token id, one
\* with no lower bound.
OddParents ==
    { Market("below-2", << "p4y", "p4n" >>, 2, NoneVal, "below"),
      Market("short-2", << "p5y" >>, 2, NoneVal, "above"),
      Market("open", << "p6y", "p6n" >>, NoneVal, NoneVal, "above") }

\* Range children 1..2, 1..3 and 2..3.
ChildPool ==
    { Market("range-1-2", << "r1y", "r1n" >>, 1, 2, "range"),
      Market("range-1-3", << "r2y", "r2n" >>, 1, 3, "range"),
      Market("range-2-3", << "r3y", "r3n" >>, 2, 3, "range") }

\* Children that are unusual: one 1..2 whose kind is not "range", one with a
\* single token id.
OddChildren ==
    { Market("above-1-2", << "r4y", "r4n" >>, 1, 2, "above"),
      Market("short-1-2", << "r5y" >>, 1, 2, "range") }

SeqsUpTo(set, n) == UNION { [ 1..k -> set ] : k \in 0..n }

GroupInput(group_key, children, parents) ==
    [ group_key |-> group_key, children |-> children, parents |-> parents ]

\* Two adjacent parents and their connecting range child.
TestGroup ==
    GroupInput("g1",
        << Market("range-1-2", << "r1y", "r1n" >>, 1, 2, "range") >>,
        << Market("above-1", << "p1y", "p1n" >>, 1, NoneVal, "above"),
           Market("above-2", << "p2y", "p2n" >>, 2, NoneVal, "above") >>)

\* Three parents and both connecting range children, on the same tokens.
ChainGroup ==
    GroupInput("g2",
        << Market("range-1-2", << "r1y", "r1n" >>, 1, 2, "range"),
           Market("range-2-3", << "r3y", "r3n" >>, 2, 3, "range") >>,
        << Market("above-1", << "p1y", "p1n" >>, 1, NoneVal, "above"),
           Market("above-2", << "p2y", "p2n" >>, 2, NoneVal, "above"),
           Market("above-3", << "p3y", "p3n" >>, 3, NoneVal, "above") >>)

\* The parent lists pushed: any list over the pool, and the parents above 1
\* and 2 with an odd parent between or after them.
ParentLists ==
    SeqsUpTo(ParentPool, MaxParents)
    \cup { << Market("above-1", << "p1y", "p1n" >>, 1, NoneVal, "above"), x,
              Market("above-2", << "p2y", "p2n" >>, 2, NoneVal, "above") >> :
            x \in OddParents }
    \cup { << Market("above-1", << "p1y", "p1n" >>, 1, NoneVal, "above"), x >> :
            x \in OddParents }

\* A second range child 1..2, on tokens of its own.
TwinChild == Market("range-1-2-twin", << "r6y", "r6n" >>, 1, 2, "range")

\* What the host first pushes: any one group over the pools, and the range
\* child 1..2 before and after its twin.
ChildLists ==
    SeqsUpTo(ChildPool, MaxChildren) \cup { << x >> : x \in OddChildren }
    \cup { << Market("range-1-2", << "r1y", "r1n" >>, 1, 2, "range"), TwinChild >>,
           << TwinChild, Market("range-1-2", << "r1y", "r1n" >>, 1, 2, "range") >> }

StructInputs ==
    { << GroupInput("g1", cs, ps) >> : cs \in ChildLists, ps \in ParentLists }

\* What the host pushes on a refresh: nothing, one group, two groups.
RebuildInputs == { << >>, << TestGroup >>, << TestGroup, ChainGroup >> }

StructUpdates ==
    { TopOfBook(t, 620, 600, 100, 100, 0) : t \in {"p1y", "r1n"} }

\* The engine fed market structures: a first push of any structure, refreshes,
\* and quotes in between.
NextStructure ==
    \/ call.op = "" /\ \E G \in StructInputs : update_market_structure(G)
    \/ \E G \in RebuildInputs : update_market_structure(G)
    \/ \E u \in StructUpdates : HandleTopOfBook(u)

\* ================================================================ the socket
\* ------------------------------------------------------- 64-bit arithmetic
\* A u64 as eight base-256 limbs, least significant first.
RECURSIVE limbs(_, _)
limbs(n, k) == IF k = 0 THEN << >> ELSE << n % 256 >> \o limbs(n \div 256, k - 1)

u64(n) == limbs(n, 8)

U64_MAX == << 255, 255, 255, 255, 255, 255, 255, 255 >>

\* The sum of the limb products a[i] * b[j] that land on limb k.
RECURSIVE column(_, _, _, _)
column(a, b, k, i) ==
    IF i = 0 THEN 0
    ELSE (IF k + 1 - i \in 1..8 THEN a[i] * b[k + 1 - i] ELSE 0) + column(a, b, k, i - 1)

\* Limbs k..16 of the full product a * b.
RECURSIVE product(_, _, _, _)
product(a, b, k, carry) ==
    IF k > 16 THEN << >>
    ELSE LET s == column(a, b, k, 8) + carry
         IN  << s % 256 >> \o product(a, b, k + 1, s \div 256)

\* u64::overflowing_mul: a * b modulo 2^64, and whether a * b exceeds 64 bits.
overflowing_mul(a, b) ==
    LET full == product(a, b, 1, 0)
    IN  [ value |-> SubSeq(full, 1, 8), overflow |-> SubSeq(full, 9, 16) # u64(0) ]

\* u64::checked_mul, << >> for None.
checked_mul(a, b) ==
    LET m == overflowing_mul(a, b) IN IF m.overflow THEN << >> ELSE m.value

\* u64::checked_pow, << >> for None.
RECURSIVE checked_pow(_, _)
checked_pow(base, exp) ==
    IF exp = 0 THEN u64(1)
    ELSE LET p == checked_pow(base, exp - 1)
         IN  IF p = << >> THEN << >> ELSE checked_mul(p, base)

\* u64::saturating_pow
saturating_pow(base, exp) ==
    LET p == checked_pow(base, exp) IN IF p = << >> THEN U64_MAX ELSE p

\* a < b, compared from limb k down.
RECURSIVE less(_, _, _)
less(a, b, k) ==
    IF k = 0 THEN FALSE
    ELSE IF a[k] # b[k] THEN a[k] < b[k]
    ELSE less(a, b, k - 1)

\* std::cmp::min
min_u64(a, b) == IF less(b, a, 8) THEN b ELSE a

\* The value of a u64 below 2^31.
as_int(a) == a[1] + 256 * a[2] + 65536 * a[3] + 16777216 * a[4]

\* ------------------------------------------------------------- SocketConfig
max_tokens_per_connection(cfg) == UnwrapOr(cfg.max_tokens_per_connection, 50)

reconnect_base_delay_ms(cfg) == UnwrapOr(cfg.reconnect_base_delay_ms, 1000)

reconnect_max_delay_ms(cfg) == UnwrapOr(cfg.reconnect_max_delay_ms, 30000)

\* None (unlimited) for a missing or negative value.
max_reconnect_attempts(cfg) ==
    IF IsSome(cfg.max_reconnect_attempts) /\ cfg.max_reconnect_attempts >= 0
    THEN cfg.max_reconnect_attempts ELSE NoneVal

SocketConfig(max_tokens, base_ms, max_ms, max_attempts) ==
    [ max_tokens_per_connection |-> max_tokens, reconnect_base_delay_ms |-> base_ms,
      reconnect_max_delay_ms |-> max_ms, max_reconnect_attempts |-> max_attempts ]

\* ----------------------------------------------------------- WsClient::run
\* The delay before the next connection attempt:
\* min(base * 2u64.saturating_pow(attempts.saturating_sub(1)), max).  The
\* multiplication panics on overflow in a build that checks it and wraps otherwise.
reconnect_delay(base_ms, max_ms, reconnect_attempts, checks) ==
    LET factor == saturating_pow(u64(2), saturating_sub(reconnect_attempts, 1))
        m == overflowing_mul(u64(base_ms), factor)
    IN  IF checks /\ m.overflow
        THEN [ panic |-> TRUE, delay_ms |-> 0 ]
        ELSE [ panic |-> FALSE, delay_ms |-> as_int(min_u64(m.value, u64(max_ms))) ]

\* A task that has left run(): by the shutdown signal, by giving up, or by a panic.
Stopped == { "stopped", "gave_up", "panicked" }

\* WsClient::new and the clone of the manager's shutdown receiver, which has
\* seen the value the channel holds.
WsClient(connection_id, tokens) ==
    [ connection_id |-> connection_id, tokens |-> tokens, pc |-> "check",
      reconnect_attempts |-> 0, delay_ms |-> NoneVal, seen |-> TRUE ]

\* The top of run's loop: `if *shutdown.borrow() { break; }`
run_check(value) == IF value THEN "stopped" ELSE "connecting"

\* Faulty variant of the read loop's shutdown branch: the change is consumed
\* and the loop goes on reading.
reading_on_changed_ignored(value) == "reading"

\* The read loop's shutdown branch: on true the close frame is sent,
\* connect_and_run returns Ok and run breaks.
reading_on_changed(value) == IF value THEN "stopped" ELSE "reading"

\* The backoff's shutdown branch.
backoff_on_changed(value) == IF value THEN "stopped" ELSE "check"

\* run after connect_and_run returned Err: count the attempt, give up past
\* max_reconnect_attempts, otherwise compute the delay and sleep.
on_error(task, cfg, checks) ==
    LET attempts == task.reconnect_attempts + 1
        max == max_reconnect_attempts(cfg)
        d == reconnect_delay(reconnect_base_delay_ms(cfg), reconnect_max_delay_ms(cfg),
                             attempts, checks)
    IN  IF IsSome(max) /\ attempts > max
        THEN [ task EXCEPT !.reconnect_attempts = attempts, !.pc = "gave_up" ]
        ELSE IF d.panic
        THEN [ task EXCEPT !.reconnect_attempts = attempts, !.pc = "panicked" ]
        ELSE [ task EXCEPT !.reconnect_attempts = attempts, !.pc = "backoff",
                           !.delay_ms = d.delay_ms ]

\* run after connect_and_run returned Ok: break on shutdown, otherwise reset
\* the attempts, compute the delay and sleep.
on_clean_close(task, cfg, checks, value) ==
    LET d == reconnect_delay(reconnect_base_delay_ms(cfg), reconnect_max_delay_ms(cfg),
                             0, checks)
    IN  IF value THEN [ task EXCEPT !.pc = "stopped" ]
        ELSE [ task EXCEPT !.reconnect_attempts = 0, !.pc = "backoff",
                           !.delay_ms = d.delay_ms ]

SetTask(i, task) ==
    /\ ws' = [ ws EXCEPT ![i] = task ]
    /\ UNCHANGED <<socket_config, connections, task_handles, parser, raw, shutdown_tx,
                   manager_pc, socket_call, overflow_checks, engine, executor, pricing,
                   bridge, now>>

RunCheck(i) ==
    /\ i \in 1..Len(ws) /\ ws[i].pc = "check"
    /\ SetTask(i, [ ws[i] EXCEPT !.pc = run_check(shutdown_tx) ])

\* connect_async and the subscription message succeed.
ConnectOk(i) ==
    /\ i \in 1..Len(ws) /\ ws[i].pc = "connecting"
    /\ SetTask(i, [ ws[i] EXCEPT !.pc = "reading" ])

\* connect_async or the subscription message fails; at most cap failures in a row.
ConnectErr(i, cap) ==
    /\ i \in 1..Len(ws) /\ ws[i].pc = "connecting"
    /\ ws[i].reconnect_attempts < cap
    /\ SetTask(i, on_error(ws[i], socket_config, overflow_checks))

\* The read fails, or the pong or the ping cannot be written.
ReadErr(i, cap) ==
    /\ i \in 1..Len(ws) /\ ws[i].pc = "reading"
    /\ ws[i].reconnect_attempts < cap
    /\ SetTask(i, on_error(ws[i], socket_config, overflow_checks))

\* The server closes the connection or the stream ends.
ReadClosed(i) ==
    /\ i \in 1..Len(ws) /\ ws[i].pc = "reading"
    /\ SetTask(i, on_clean_close(ws[i], socket_config, overflow_checks, shutdown_tx))

\* shutdown.changed() resolves in the read loop.
ShutdownChanged(i) ==
    /\ i \in 1..Len(ws) /\ ws[i].pc = "reading" /\ ~ws[i].seen
    /\ SetTask(i, [ ws[i] EXCEPT !.seen = TRUE, !.pc = reading_on_changed(shutdown_tx) ])

\* The sleep of the backoff ends.
BackoffElapsed(i) ==
    /\ i \in 1..Len(ws) /\ ws[i].pc = "backoff"
    /\ SetTask(i, [ ws[i] EXCEPT !.pc = "check", !.delay_ms = NoneVal ])

\* shutdown.changed() resolves during the backoff.
BackoffShutdown(i) ==
    /\ i \in 1..Len(ws) /\ ws[i].pc = "backoff" /\ ~ws[i].seen
    /\ SetTask(i, [ ws[i] EXCEPT !.seen = TRUE, !.pc = backoff_on_changed(shutdown_tx),
                                  !.delay_ms = NoneVal ])

\* A text or binary message is forwarded to the parser's channel.
ReadMessage(i) ==
    /\ i \in 1..Len(ws) /\ ws[i].pc = "reading"
    /\ raw[i] < MaxRaw
    /\ raw' = [ raw EXCEPT ![i] = @ + 1 ]
    /\ UNCHANGED <<socket_config, connections, task_handles, ws, parser, shutdown_tx,
                   manager_pc, socket_call, overflow_checks, engine, executor, pricing,
                   bridge, now>>

\* The parser task takes a message off its channel.
ParserRecv(i) ==
    /\ i \in 1..Len(parser) /\ parser[i] = "running"
    /\ raw[i] > 0
    /\ raw' = [ raw EXCEPT ![i] = @ - 1 ]
    /\ UNCHANGED <<socket_config, connections, task_handles, ws, parser, shutdown_tx,
                   manager_pc, socket_call, overflow_checks, engine, executor, pricing,
                   bridge, now>>

\* recv() yields None: the channel is empty and run() has dropped the sender.
ParserEnd(i) ==
    /\ i \in 1..Len(parser) /\ parser[i] = "running"
    /\ raw[i] = 0
    /\ ws[i].pc \in Stopped
    /\ parser' = [ parser EXCEPT ![i] = "done" ]
    /\ UNCHANGED <<socket_config, connections, task_handles, ws, raw, shutdown_tx,
                   manager_pc, socket_call, overflow_checks, engine, executor, pricing,
                   bridge, now>>

\* ------------------------------------------------------------ SocketManager
Range(seq) == { seq[k] : k \in 1..Len(seq) }

\* Faulty variant of chunks: the whole slice as one chunk.
chunks_whole(seq, n) == IF seq = << >> THEN << >> ELSE << seq >>

\* slice::chunks
RECURSIVE chunks(_, _)
chunks(seq, n) ==
    IF seq = << >> THEN << >>
    ELSE IF Len(seq) <= n THEN << seq >>
    ELSE << SubSeq(seq, 1, n) >> \o chunks(SubSeq(seq, n + 1, Len(seq)), n)

\* The tokens of the rosters.
existing_tokens(conns) == UNION { Range(conns[c]) : c \in DOMAIN conns }

\* `conns.insert(format!("conn_{}", next_idx + i), batch)` for every batch.
RECURSIVE insert_batches(_, _, _)
insert_batches(conns, batches, next_idx) ==
    IF batches = << >> THEN conns
    ELSE insert_batches(Insert(conns, next_idx, Head(batches)), Tail(batches), next_idx + 1)

\* The batches of a subscribe call: the requested tokens no roster holds, in
\* chunks of max_tokens_per_connection.
new_batches(conns, token_ids, cfg) ==
    chunks(SelectSeq(token_ids, LAMBDA t : t \notin existing_tokens(conns)),
           max_tokens_per_connection(cfg))

NoSocketCall == [ op |-> "", token_ids |-> << >>, before |-> EmptyMap, started |-> << >> ]

\* subscribe_tokens under the MANAGER lock: a roster, a WsClient task and a
\* parser task for every batch; at most MaxConnections task pairs are spawned.
subscribe_tokens(token_ids) ==
    LET batches == new_batches(connections, token_ids, socket_config)
        next_idx == Cardinality(DOMAIN connections)
        n == Len(batches)
    IN  /\ manager_pc = "idle"
        /\ Len(ws) + n <= MaxConnections
        /\ connections' = insert_batches(connections, batches, next_idx)
        /\ ws' = ws \o [ k \in 1..n |-> WsClient(next_idx + k - 1, batches[k]) ]
        /\ parser' = parser \o [ k \in 1..n |-> "running" ]
        /\ raw' = raw \o [ k \in 1..n |-> 0 ]
        /\ task_handles' = task_handles \o
              [ k \in 1..(2 * n) |-> << IF k % 2 = 1 THEN "ws" ELSE "parser",
                                        Len(ws) + (k + 1) \div 2 >> ]
        /\ socket_call' = [ op |-> "subscribe_tokens", token_ids |-> token_ids,
                            before |-> connections,
                            started |-> [ k \in 1..n |-> batches[k] ] ]
        /\ UNCHANGED <<socket_config, shutdown_tx, manager_pc, overflow_checks,
                       engine, executor, pricing, bridge, now>>

\* unsubscribe_tokens under the MANAGER lock: the tokens leave the rosters and
\* the rosters left empty leave the table; no task is stopped.
unsubscribe_tokens(token_ids) ==
    LET retained == [ c \in DOMAIN connections |->
                        SelectSeq(connections[c], LAMBDA t : t \notin Range(token_ids)) ]
    IN  /\ manager_pc = "idle"
        /\ connections' = [ c \in { d \in DOMAIN connections : retained[d] # << >> } |->
                              retained[c] ]
        /\ socket_call' = [ NoSocketCall EXCEPT !.op = "unsubscribe_tokens" ]
        /\ UNCHANGED <<socket_config, task_handles, ws, parser, raw, shutdown_tx,
                       manager_pc, overflow_checks, engine, executor, pricing, bridge, now>>

\* shutdown: the signal is sent, every receiver has a change to see.
Shutdown ==
    /\ manager_pc = "idle"
    /\ shutdown_tx' = TRUE
    /\ ws' = [ i \in 1..Len(ws) |-> [ ws[i] EXCEPT !.seen = FALSE ] ]
    /\ manager_pc' = "awaiting"
    /\ UNCHANGED <<socket_config, connections, task_handles, parser, raw, socket_call,
                   overflow_checks, engine, executor, pricing, bridge, now>>

\* The task of a join handle has ended.
Finished(handle) ==
    IF handle[1] = "ws" THEN ws[handle[2]].pc \in Stopped ELSE parser[handle[2]] = "done"

\* `handle.await` returns for the next handle drained.
AwaitHandle ==
    /\ manager_pc = "awaiting"
    /\ task_handles # << >>
    /\ Finished(Head(task_handles))
    /\ task_handles' = Tail(task_handles)
    /\ UNCHANGED <<socket_config, connections, ws, parser, raw, shutdown_tx, manager_pc,
                   socket_call, overflow_checks, engine, executor, pricing, bridge, now>>

\* All handles awaited: the connection table is cleared and shutdown returns
\* (shutdown_socket then drops the manager).
ShutdownReturn ==
    /\ manager_pc = "awaiting"
    /\ task_handles = << >>
    /\ connections' = EmptyMap
    /\ manager_pc' = "done"
    /\ UNCHANGED <<socket_config, task_handles, ws, parser, raw, shutdown_tx,
                   socket_call, overflow_checks, engine, executor, pricing, bridge, now>>

\* SocketManager::new, before any call.
SocketInit ==
    /\ connections = EmptyMap
    /\ task_handles = << >>
    /\ ws = << >>
    /\ parser = << >>
    /\ raw = << >>
    /\ shutdown_tx = FALSE
    /\ manager_pc = "idle"
    /\ socket_call = NoSocketCall

\* ------------------------------------------------------ the socket's inputs
SocketTokens == { "t1", "t2" }

TokenLists == SeqsUpTo(SocketTokens, MaxTokens)

\* The default configuration and rosters of at most one and two tokens.
RosterConfigs ==
    { SocketConfig(m, NoneVal, NoneVal, NoneVal) : m \in { NoneVal, 1, 2 } }

\* The default delays (1 s doubling up to 30 s), an odd base, and a base above
\* the cap, all with unlimited attempts.
BackoffConfigs ==
    { SocketConfig(1, NoneVal, NoneVal, NoneVal), SocketConfig(1, 3, 100, NoneVal),
      SocketConfig(1, 500, 200, NoneVal) }

\* The default delays with unlimited attempts.
ShutdownConfigs == { SocketConfig(1, NoneVal, NoneVal, NoneVal) }

\* ======================================================= order construction
\* Prices and sizes are exact decimal fractions [n, d] = n / d, d a power of ten.
Real(n, d) == [ n |-> n, d |-> d ]

Mul(a, b) == Real(a.n * b.n, a.d * b.d)

\* f64::round of n / d (d > 0): to the nearest integer, halves away from zero.
round(n, d) ==
    IF n >= 0 THEN (2 * n + d) \div (2 * d) ELSE -(((2 * (-n)) + d) \div (2 * d))

\* (x * m).round() for a power of ten m, the common factor of m and x.d
\* cancelled before the product is taken.
round_times(x, m) ==
    IF x.d % m = 0 THEN round(x.n, x.d \div m)
    ELSE IF m % x.d = 0 THEN x.n * (m \div x.d)
    ELSE round(x.n * m, x.d)

\* 10_f64.powi(decimals)
RECURSIVE powi(_)
powi(decimals) == IF decimals = 0 THEN 1 ELSE 10 * powi(decimals - 1)

\* round_to_decimals cutting the digits off instead of rounding.
round_to_decimals_down(value, decimals) ==
    Real((value.n * powi(decimals)) \div value.d, powi(decimals))

\* round_to_decimals: (value * 10^decimals).round() / 10^decimals
round_to_decimals(value, decimals) ==
    Real(round_times(value, powi(decimals)), powi(decimals))

\* `as u64` of a rounded f64: negative values saturate to 0.
as_u64(x) == IF x < 0 THEN 0 ELSE x

\* The constants of validator.rs, prices in thousandths.
MAX_PRICE == 990
MIN_PRICE == 10
SLIPPAGE_EXTREME_THRESHOLD_HIGH == 960
SLIPPAGE_EXTREME_THRESHOLD_LOW == 40
NORMAL_SPREAD == 10
EXTREME_SPREAD == 1
DECIMALS == 1000000

Min(a, b) == IF a <= b THEN a ELSE b

\* get_spread_for_price, the price in thousandths
get_spread_for_price(price) ==
    IF price >= SLIPPAGE_EXTREME_THRESHOLD_HIGH \/ price <= SLIPPAGE_EXTREME_THRESHOLD_LOW
    THEN EXTREME_SPREAD
    ELSE NORMAL_SPREAD

\* apply_slippage, the price in thousandths
apply_slippage(price, side) ==
    LET spread == get_spread_for_price(price) IN
    IF side = "BUY"
    THEN Max(price, Min(price + spread, MAX_PRICE))
    ELSE Min(price, Max(price - spread, MIN_PRICE))

\* OrderSide::as_u8
as_u8(side) == IF side = "BUY" THEN 0 ELSE 1

\* The OrderToSign prepare_batch_orders builds of one candidate (its salt and
\* token id apart); price in thousandths, size a Real.
prepare_order(candidate, size, slippage_enabled) ==
    LET price == IF slippage_enabled
                 THEN apply_slippage(candidate.price, candidate.side)
                 ELSE candidate.price
        size_rounded == round_to_decimals(size, 2)
        usdc_raw == Mul(Real(price, Milli), size_rounded)
        usdc_rounded == round_to_decimals(usdc_raw, 4)
    IN  IF candidate.side = "BUY"
        THEN [ side |-> as_u8(candidate.side),
               maker_amount |-> as_u64(round_times(usdc_rounded, DECIMALS)),
               taker_amount |-> as_u64(round_times(size_rounded, DECIMALS)) ]
        ELSE [ side |-> as_u8(candidate.side),
               maker_amount |-> as_u64(round_times(size_rounded, DECIMALS)),
               taker_amount |-> as_u64(round_times(usdc_rounded, DECIMALS)) ]

\* The OrderToSign place_batch_orders_rust_inner builds inline of one input
\* (its salt and token id apart); price in thousandths, size a Real.
inline_order(input) ==
    LET side == IF input.side = "SELL" THEN 1 ELSE 0
        size_rounded == Real(round_times(input.size, 100), 100)
        usdc_raw == Mul(Real(input.price, Milli), size_rounded)
        usdc_rounded == Real(round_times(usdc_raw, 10000), 10000)
    IN  IF side = 0
        THEN [ side |-> side,
               maker_amount |-> as_u64(round_times(usdc_rounded, 1000000)),
               taker_amount |-> as_u64(round_times(size_rounded, 1000000)) ]
        ELSE [ side |-> side,
               maker_amount |-> as_u64(round_times(size_rounded, 1000000)),
               taker_amount |-> as_u64(round_times(usdc_rounded, 1000000)) ]

NoOrder == [ price |-> 0, size |-> Real(0, Milli), side |-> "" ]

NoAmounts == [ side |-> NoneVal, maker_amount |-> NoneVal, taker_amount |-> NoneVal ]

NothingPrepared ==
    [ slipped |-> NoneVal, slippage_enabled |-> FALSE, executor |-> NoAmounts,
      inline |-> NoAmounts ]

\* apply_slippage on the order's price.
ApplySlippage ==
    /\ order # NoOrder
    /\ prepared' = [ prepared EXCEPT !.slipped = apply_slippage(order.price, order.side) ]
    /\ UNCHANGED <<order, built, signing, shared, config, on_trade_result, now, pc, locals, history, engine,
                   socket, bridge>>

\* The executor prepares the order, with slippage enabled or not.
PrepareBatchOrders(slippage_enabled) ==
    /\ order # NoOrder
    /\ prepared' = [ prepared EXCEPT
                       !.executor = prepare_order(order, order.size, slippage_enabled),
                       !.slippage_enabled = slippage_enabled ]
    /\ UNCHANGED <<order, built, signing, shared, config, on_trade_result, now, pc, locals, history, engine,
                   socket, bridge>>

\* place_batch_orders_rust builds the order inline.
PlaceBatchOrdersRust ==
    /\ order # NoOrder
    /\ prepared' = [ prepared EXCEPT !.inline = inline_order(order) ]
    /\ UNCHANGED <<order, built, signing, shared, config, on_trade_result, now, pc, locals, history, engine,
                   socket, bridge>>

\* Prices of 0, 0.005, ..., 1 in thousandths: both ends of the range, both
\* sides of each threshold of the spread, and the prices of the tests.
OrderPrices ==
    { 0, 5, 10, 11, 30, 40, 41, 335, 420, 500, 650, 959, 960, 970, 989, 990, 995, 1000 }

\* Sizes of 5, 5.004, 5.005 and 12.345.
OrderSizes == { Real(5000, Milli), Real(5004, Milli), Real(5005, Milli), Real(12345, Milli) }

OrderInputs ==
    { [ price |-> p, size |-> s, side |-> d ] :
        p \in OrderPrices, s \in OrderSizes, d \in { "BUY", "SELL" } }

\* ---------------------------------------------------- the order candidates
NothingBuilt == [ signal |-> NoSignal, candidates |-> << >>, done |-> FALSE ]

\* should_skip's `let candidates = build_order_candidates(signal)`.
BuildOrderCandidates ==
    /\ ~built.done
    /\ built' = [ built EXCEPT !.candidates = build_order_candidates(built.signal),
                               !.done = TRUE ]
    /\ UNCHANGED <<order, prepared, signing, shared, config, on_trade_result, now, pc, locals,
                   history, engine, socket, bridge>>

\* A signal as the evaluators fill it: the three legs' tokens, each leg's bid
\* and ask (with sizes) or none, each market's neg_risk flag, and the flat
\* copies of the parent's quotes.
LegSignal(strategy, quotes, neg_risk) ==
    [ MkSignal(strategy, 1, NoneVal, NoneVal, NoneVal, "103") EXCEPT
        !.parent_best_bid = quotes[1], !.parent_best_ask = quotes[2],
        !.parent_best_bid_flat = quotes[1], !.parent_best_ask_flat = quotes[2],
        !.parent_best_bid_size = 11, !.parent_best_ask_size = 12,
        !.parent_upper_best_bid = quotes[3], !.parent_upper_best_ask = quotes[4],
        !.parent_upper_best_bid_size = 21, !.parent_upper_best_ask_size = 22,
        !.child_best_bid = quotes[5], !.child_best_ask = quotes[6],
        !.child_best_bid_size = 31, !.child_best_ask_size = 32,
        !.parent_neg_risk = neg_risk[1], !.parent_upper_neg_risk = neg_risk[2],
        !.child_neg_risk = neg_risk[3] ]

\* Every strategy, with each of the six quotes (bids 610, 410, 310, asks 620,
\* 420, 320, in thousandths) there or not, and every setting of the flags.
CandidateSignals ==
    { LegSignal(s, q, n) :
        s \in Strategies,
        q \in {610, NoneVal} \X {620, NoneVal} \X {410, NoneVal} \X {420, NoneVal}
              \X {310, NoneVal} \X {320, NoneVal},
        n \in BOOLEAN \X BOOLEAN \X BOOLEAN }

\* ------------------------------------------------------------ the signer
NothingSigned == [ orders |-> << >>, result |-> "", signed_orders |-> << >> ]

\* Longest batch handed to the signer.
MaxSigned == 2

CHAIN_ID == 137
SIGNATURE_TYPE_POLY_GNOSIS_SAFE == 2
VERIFYING_CONTRACT == "0x4bFb41d5B3570DeFd03C39a9A4D8dE6Bd8B8982E"
NEG_RISK_VERIFYING_CONTRACT == "0xC5d563A36AE78145C45a50134d48A1215220f80a"

\* A string is the sequence of its characters.
DecDigits == << "0", "1", "2", "3", "4", "5", "6", "7", "8", "9" >>

HexDigits == DecDigits \o << "a", "b", "c", "d", "e", "f" >>

Lower(c) ==
    CASE c = "A" -> "a" [] c = "B" -> "b" [] c = "C" -> "c" [] c = "D" -> "d"
      [] c = "E" -> "e" [] c = "F" -> "f" [] OTHER -> c

\* The value of a digit in the alphabet, or NoneVal when it is not in it.
digit(alphabet, c) ==
    IF \E k \in 1..Len(alphabet) : alphabet[k] = c
    THEN (CHOOSE k \in 1..Len(alphabet) : alphabet[k] = c) - 1
    ELSE NoneVal

\* str::trim on blanks.
RECURSIVE trim_start(_)
trim_start(s) == IF s # << >> /\ Head(s) = " " THEN trim_start(Tail(s)) ELSE s

RECURSIVE trim_end(_)
trim_end(s) ==
    IF s # << >> /\ s[Len(s)] = " " THEN trim_end(SubSeq(s, 1, Len(s) - 1)) ELSE s

trim(s) == trim_end(trim_start(s))

\* The digits of s read in the base of the alphabet onto acc, NoneVal at the
\* first character that is no digit (the strings here are far below 2^256).
RECURSIVE from_digits(_, _, _)
from_digits(alphabet, s, acc) ==
    IF s = << >> THEN acc
    ELSE IF digit(alphabet, Lower(Head(s))) = NoneVal THEN NoneVal
    ELSE from_digits(alphabet, Tail(s),
                     acc * Len(alphabet) + digit(alphabet, Lower(Head(s))))

\* U256::from_dec_str
from_dec_str(s) ==
    IF \E k \in 1..Len(s) : digit(DecDigits, s[k]) = NoneVal THEN NoneVal
    ELSE from_digits(DecDigits, s, 0)

\* U256::from_str: hexadecimal, after an optional "0x".
from_str(s) ==
    from_digits(HexDigits,
                IF Len(s) >= 2 /\ s[1] = "0" /\ s[2] = "x" THEN SubSeq(s, 3, Len(s)) ELSE s,
                0)

\* parse_u256: the value, or NoneVal for an Err.
parse_u256(s) ==
    LET t == trim(s) IN
    IF Len(t) >= 2 /\ t[1] = "0" /\ t[2] \in { "x", "X" } THEN from_str(t)
    ELSE from_dec_str(t)

\* compute_domain_separator: the hash of the domain fields, the contract
\* being the neg-risk exchange or the standard one.
compute_domain_separator(neg_risk) ==
    << "keccak256", "Polymarket CTF Exchange", "1", CHAIN_ID,
       IF neg_risk THEN NEG_RISK_VERIFYING_CONTRACT ELSE VERIFYING_CONTRACT >>

\* compute_order_struct_hash: the hash of the twelve order fields.
compute_order_struct_hash(salt, maker, signer, taker, token_id, maker_amount, taker_amount, expiration, nonce, fee_rate_bps, side, signature_type) ==
    << "keccak256", salt, maker, signer, taker, token_id, maker_amount, taker_amount,
       expiration, nonce, fee_rate_bps, side, signature_type >>

\* compute_typed_data_hash
compute_typed_data_hash(domain_separator, struct_hash) ==
    << "keccak256", 25, 1, domain_separator, struct_hash >>

\* LocalWallet::sign_hash under the wallet's key.
sign_hash(hash) == << "signature", "wallet", hash >>

\* Faulty variant of the choice of domain separator: always the standard one.
domain_separator_standard_only(o) == compute_domain_separator(FALSE)

\* `if o.neg_risk { &self.domain_separator_neg_risk } else { ... }`
domain_separator_of(o) ==
    IF o.neg_risk THEN compute_domain_separator(TRUE)
    ELSE compute_domain_separator(FALSE)

\* str::parse::<i64> of the salt as written, NoneVal for an Err (no trimming,
\* decimal digits only among the strings here).
parse_i64(s) == IF s = << >> THEN NoneVal ELSE from_dec_str(s)

\* One pass of the loop of sign_batch_orders: the signed o, or NoneVal
\* when a `?` returns the error.
sign_order(o) ==
    LET salt == parse_u256(o.salt)
        token_id == parse_u256(o.token_id)
        maker_amount == parse_u256(o.maker_amount)
        taker_amount == parse_u256(o.taker_amount)
        struct_hash ==
            compute_order_struct_hash(salt, "maker", "signer", "zero", token_id,
                                      maker_amount, taker_amount, 0, 0, o.fee_rate_bps,
                                      o.side, SIGNATURE_TYPE_POLY_GNOSIS_SAFE)
    IN  IF NoneVal \in { salt, token_id, maker_amount, taker_amount } THEN << >>
        ELSE << [ salt |-> IF parse_i64(o.salt) # NoneVal THEN parse_i64(o.salt)
                        ELSE salt,
               maker |-> "maker", signer |-> "signer", taker |-> "zero",
               token_id |-> o.token_id,
               maker_amount |-> o.maker_amount,
               taker_amount |-> o.taker_amount,
               side |-> IF o.side = 0 THEN "BUY" ELSE "SELL",
               expiration |-> "0", nonce |-> "0",
               fee_rate_bps |-> o.fee_rate_bps,
               signature_type |-> SIGNATURE_TYPE_POLY_GNOSIS_SAFE,
               signature |->
                   sign_hash(compute_typed_data_hash(domain_separator_of(o),
                                                     struct_hash)) ] >>

\* SignerState::sign_batch_orders: Ok with the signed orders, or the Err of
\* the first order that does not parse.
RECURSIVE sign_batch_orders(_, _)
sign_batch_orders(orders, results) ==
    IF orders = << >> THEN [ result |-> "Ok", signed_orders |-> results ]
    ELSE IF sign_order(Head(orders)) = << >>
    THEN [ result |-> "Err", signed_orders |-> << >> ]
    ELSE sign_batch_orders(Tail(orders), results \o sign_order(Head(orders)))

\* A caller signs the batch.
SignBatchOrders ==
    /\ signing.result = ""
    /\ signing' = [ orders |-> signing.orders,
                    result |-> sign_batch_orders(signing.orders, << >>).result,
                    signed_orders |->
                        sign_batch_orders(signing.orders, << >>).signed_orders ]
    /\ UNCHANGED <<order, prepared, built, shared, config, on_trade_result, now, pc, locals,
                   history, engine, socket, bridge>>

OrderToSign(salt, token_id, maker_amount, taker_amount, side, neg_risk) ==
    [ salt |-> salt, token_id |-> token_id, maker_amount |-> maker_amount,
      taker_amount |-> taker_amount, side |-> side, neg_risk |-> neg_risk,
      fee_rate_bps |-> 0 ]

\* Orders that parse: salt "7" or " 12", a decimal or a hexadecimal token id,
\* amounts "5" and "9", either side and either exchange; and orders with one
\* field that is no number: salt "x", token id "0xZZ", maker amount "5.0",
\* taker amount "1e3".
SignableOrders ==
    { OrderToSign(salt, token, << "5" >>, << "9" >>, side, neg_risk) :
        salt \in { << "7" >>, << " ", "1", "2" >> },
        token \in { << "1", "0", "1" >>, << "0", "x", "1", "F" >> },
        side \in {0, 1}, neg_risk \in BOOLEAN }

UnsignableOrders ==
    { OrderToSign(f[1], f[2], f[3], f[4], 0, neg_risk) :
        f \in { << << "x" >>, << "1", "0", "1" >>, << "5" >>, << "9" >> >>,
                << << "7" >>, << "0", "x", "Z", "Z" >>, << "5" >>, << "9" >> >>,
                << << "7" >>, << "1", "0", "1" >>, << "5", ".", "0" >>, << "9" >> >>,
                << << "7" >>, << "1", "0", "1" >>, << "5" >>, << "1", "e", "3" >> >> },
        neg_risk \in BOOLEAN }

SignBatches ==
    UNION { [ 1..n -> SignableOrders \cup UnsignableOrders ] : n \in 0..MaxSigned }

\* ------------------------------------------------- place_batch_orders_rust
\* `if orders.len() > 15`
BATCH_LIMIT == 15

\* Faulty variant of the limit: one order more is let through.
over_limit_loose(orders) == Len(orders) > BATCH_LIMIT + 1

over_limit(orders) == Len(orders) > BATCH_LIMIT

\* What a call returned: Ok(result) or Err(message) (or a panic of the POST),
\* with the orders handed to the signer and the orders sent in a POST.
BatchResult(initialized, orders, how, success, error, results, signed, posted) ==
    [ initialized |-> initialized, orders |-> Len(orders), returned |-> how,
      success |-> success, error |-> error, results |-> results, signed |-> signed,
      posted |-> posted ]

\* No batch has been placed.
NoBatch == BatchResult(FALSE, << >>, "", FALSE, "", 0, 0, 0)

\* place_batch_orders_rust_inner on a list of orders; client_ok: the API
\* secret decodes and the HTTP client builds.
place_batch_orders_rust_inner(initialized, orders, client_ok, http) ==
    IF ~initialized
    THEN BatchResult(initialized, orders, "Err", FALSE,
                     "Executor not initialized. Call initExecutor() first.", 0, 0, 0)
    ELSE IF orders = << >>
    THEN BatchResult(initialized, orders, "Ok", FALSE, "No orders provided", 0, 0, 0)
    ELSE IF over_limit(orders)
    THEN BatchResult(initialized, orders, "Ok", FALSE,
                     "Maximum 15 orders allowed per batch", 0, 0, 0)
    ELSE IF ~client_ok
    THEN BatchResult(initialized, orders, "Err", FALSE, "Failed to create API client", 0, 0, 0)
    ELSE IF ~sign_batch_orders_ok(orders)
    THEN BatchResult(initialized, orders, "Err", FALSE, "Signing failed", 0, Len(orders), 0)
    ELSE IF post_panics(http)
    THEN BatchResult(initialized, orders, "panic", FALSE, "", 0, Len(orders), Len(orders))
    ELSE LET r == post_batch_orders(orders, http)
         IN  BatchResult(initialized, orders, "Ok", r.success,
                         IF r.success THEN "None" ELSE r.error,
                         IF r.success THEN Len(r.responses) ELSE 0,
                         Len(orders), Len(orders))

\* The host places a batch.
PlaceBatch(orders, client_ok, http) ==
    /\ batch' = place_batch_orders_rust_inner(executor_state, orders, client_ok, http)
    /\ UNCHANGED <<executor_state, executor_init, executor_rx, engine, executor, pricing, socket, now>>

\* The init_executor calls so far: the call whose ExecutorState is in
\* EXECUTOR_STATE and the call whose sender is in EXECUTOR_TX (0: the cell is
\* empty), the executor tasks spawned, the calls made and what the last one
\* returned.
InitCalls(state, tx, tasks, calls, result) ==
    [ state |-> state, tx |-> tx, tasks |-> tasks, calls |-> calls, returned |-> result ]

NotInitialized == InitCalls(0, 0, 0, 0, "")

InitializedOnce == InitCalls(1, 1, 1, 1, "Ok")

MaxInitCalls == 3

\* Faulty variant of init_executor: every call whose state builds stores it,
\* spawns a task and stores its sender.
init_executor_again(from_config_ok) ==
    LET n == executor_init.calls + 1 IN
    /\ executor_init.calls < MaxInitCalls
    /\ IF ~from_config_ok
       THEN /\ executor_init' = [ executor_init EXCEPT !.calls = n,
                                    !.returned = "Failed to init executor" ]
            /\ UNCHANGED executor_state
       ELSE /\ executor_init' = InitCalls(n, n, executor_init.tasks + 1, n, "Ok")
            /\ executor_state' = TRUE
    /\ UNCHANGED <<executor_rx, batch, engine, executor, pricing, socket, now>>

\* init_executor: the state is built from the configuration (or the call
\* fails); EXECUTOR_STATE.set refuses a second state before anything is
\* spawned; then the executor task is spawned and its sender stored.
init_executor(from_config_ok) ==
    LET n == executor_init.calls + 1 IN
    /\ executor_init.calls < MaxInitCalls
    /\ IF ~from_config_ok
       THEN /\ executor_init' = [ executor_init EXCEPT !.calls = n,
                                    !.returned = "Failed to init executor" ]
            /\ UNCHANGED executor_state
       ELSE IF executor_init.state # 0
       THEN /\ executor_init' = [ executor_init EXCEPT !.calls = n,
                                    !.returned = "Executor already initialized" ]
            /\ UNCHANGED executor_state
       ELSE IF executor_init.tx # 0
       THEN /\ executor_init' = [ executor_init EXCEPT !.state = n,
                                    !.tasks = @ + 1, !.calls = n,
                                    !.returned = "Executor channel already created" ]
            /\ executor_state' = TRUE
       ELSE /\ executor_init' = InitCalls(n, n, executor_init.tasks + 1, n, "Ok")
            /\ executor_state' = TRUE
    /\ UNCHANGED <<executor_rx, batch, engine, executor, pricing, socket, now>>

\* Batches of 0 to MaxOrders orders for a token the signer accepts, and two
\* batches with a token id it rejects.
BatchOrders ==
    { [ k \in 1..n |-> [ token_id |-> "103" ] ] : n \in 0..MaxOrders }
      \cup { << [ token_id |-> "0xZZ" ] >>, << [ token_id |-> "103" ], [ token_id |-> "0xZZ" ] >> }

\* ------------------------------------------------------------ specifications
\* The executor after init_executor, before any signal.
InitExecutor ==
    /\ usdc_balance = 0
    /\ trading_enabled = FALSE
    /\ is_submitting = FALSE
    /\ last_executed_at = 0
    /\ minted_assets = [ g \in Groups \cup {OtherGroup} |-> [ t \in Tokens |-> NoneVal ] ]
    /\ config \in Configs
    /\ on_trade_result = FALSE
    /\ now = 1
    /\ pc = [ p \in Procs |-> "recv" ]
    /\ signal = [ p \in Procs |-> NoSignal ]
    /\ validation_result = [ p \in Procs |-> NoValidation ]
    /\ current = [ p \in Procs |-> 0 ]
    /\ balance = [ p \in Procs |-> 0 ]
    /\ post_result = [ p \in Procs |-> NoPostResult ]
    /\ trade_result = [ p \in Procs |-> NoTradeResult ]
    /\ outcome = [ p \in Procs |-> "" ]
    /\ balance_before = [ p \in Procs |-> 0 ]
    /\ refreshed = [ p \in Procs |-> FALSE ]
    /\ posts = [ p \in Procs |-> 0 ]
    /\ delivered = [ p \in Procs |-> << >> ]

\* The program after construction, the executor aside: no quote, no order
\* being built, no connection, nothing handed over to the executor.
InitRest ==
    /\ EngineInit
    /\ order = NoOrder
    /\ prepared = NothingPrepared
    /\ built = NothingBuilt
    /\ signing = NothingSigned
    /\ SocketInit
    /\ socket_config = SocketConfig(NoneVal, NoneVal, NoneVal, NoneVal)
    /\ overflow_checks = FALSE
    /\ executor_rx = << >>
    /\ batch = NoBatch

\* The program after init_executor.
Init ==
    /\ InitExecutor
    /\ InitRest
    /\ executor_state = TRUE
    /\ executor_init = InitializedOnce

\* The program: one executor task draining the signal channel, and the host.
Next == ProcessSignal(Executor, Signals, HttpOutcomes) \/ Host

Spec == Init /\ [][Next]_vars

\* Overlapping process_signal invocations on the same ValidationState, as if the
\* executor were parallelized.  Two interleaved invocations are explored on a
\* narrower input: the fully quoted triangle with a good and a bad child token;
\* a transport failure, a panic and an accepted batch; a host that toggles
\* trading and refreshes the balance while the clock runs.
OverlapSignals ==
    { MkSignal("POLYMARKET_TRIANGLE_BUY", 1, 1, 1, NoneVal, "103"),
      MkSignal("POLYMARKET_TRIANGLE_BUY", 1, 1, 1, NoneVal, "0xZZ") }

OverlapOutcomes ==
    { http \in HttpOutcomes :
        \/ ~http.transport_ok
        \/ post_panics(http)
        \/ /\ http.body_parses
           /\ Len(http.responses) = 1
           /\ IsSome(http.responses[1].order_id) }

NextOverlap ==
    \/ \E p \in Procs : ProcessSignal(p, OverlapSignals, OverlapOutcomes)
    \/ \E b \in BalancePushes : update_balance(b)
    \/ \E e \in BOOLEAN : set_trading_enabled(e)
    \/ Tick

SpecOverlap == Init /\ [][NextOverlap]_vars

\* The executor and the host's minted-asset pushes: the two strategies with SELL
\* legs (one with a child token the signer rejects), two groups, and maps that
\* leave more than, and less than, one order size.
MintedSignals ==
    { MkSignal("SELL_PARENT_BUY_CHILDREN", 1, 1, 1, NoneVal, "103"),
      MkSignal("BUY_PARENT_SELL_CHILDREN", 1, 1, 1, NoneVal, "103"),
      MkSignal("BUY_PARENT_SELL_CHILDREN", 1, 1, 1, NoneVal, "0xZZ") }

MintedOutcomes ==
    { h \in HttpOutcomes : ~h.transport_ok \/ h.body_parses }

MintedMaps ==
    { [ t \in Tokens |-> a ] : a \in {MIN_ORDER_SIZE + 1, MIN_ORDER_SIZE - 3} }

NextMinted ==
    \/ ProcessSignal(Executor, MintedSignals, MintedOutcomes)
    \/ \E g \in Groups \cup {OtherGroup}, a \in MintedMaps : update_minted_assets(g, a)
    \/ \E b \in BalancePushes : update_balance(b)
    \/ set_trading_enabled(TRUE)
    \/ Tick

SpecMinted == Init /\ [][NextMinted]_vars

\* The engine alone: init_executor has not been called, so no signal is handed
\* over.
InitEngine ==
    /\ InitExecutor
    /\ config.default_size = MIN_ORDER_SIZE
    /\ InitRest
    /\ executor_state = FALSE
    /\ executor_init = NotInitialized

SpecStructure == InitEngine /\ [][NextStructure]_vars

\* The dirty check: quotes for a parent's YES token and for a token the engine
\* has no slot for, one of them with no bid (the parser's NaN), with
\* timestamps 0 (none) up to MaxTime.
DirtyUpdates ==
    { TopOfBook(t, q[1], q[2], 100, 100, ts) :
        t \in {"p1y", "zz"}, q \in { <<620, 600>>, <<650, 670>>, <<NaN, 600>> },
        ts \in 0..MaxTime }

NextDirty ==
    \/ \E G \in { << >>, << TestGroup >> } : update_market_structure(G)
    \/ \E u \in DirtyUpdates : HandleTopOfBook(u)

SpecDirty == InitEngine /\ [][NextDirty]_vars

\* The cooldown: the quotes of the five tokens of the test group.  With the
\* first or second quote of the lower parent's YES token the triangle and the
\* bundling qualify, with its third the unbundling does.
CooldownUpdates ==
    { TopOfBook("p1y", 580, 600, 100, 100, 0),
      TopOfBook("p1y", 570, 590, 100, 100, 0),
      TopOfBook("p1y", 800, 820, 100, 100, 0),
      TopOfBook("p2n", 480, 500, 100, 100, 0),
      TopOfBook("r1n", 780, 800, 100, 100, 0),
      TopOfBook("p2y", 380, 400, 100, 100, 0),
      TopOfBook("r1y", 280, 300, 100, 100, 0) }

\* The default thresholds with no cooldown and with one of a millisecond.
CooldownConfigs ==
    { [ EngineConfigDefault EXCEPT !.cooldown_ms = c ] : c \in {0, 1} }

NextCooldown ==
    \/ update_market_structure(<< TestGroup >>)
    \/ \E cfg \in CooldownConfigs : update_engine_config(cfg)
    \/ \E u \in CooldownUpdates : HandleTopOfBook(u)
    \/ EvaluateRange(0, "p1y")
    \/ Tick

SpecCooldown == InitEngine /\ [][NextCooldown]_vars

\* The triangle: for each leg of the test group the quote of
\* test_handle_top_of_book_triangle_buy (asks 0.60, 0.50, 0.80) and the quote of
\* test_calc_trio_profit_below_threshold (ask 0.67).
TriangleUpdates ==
    { TopOfBook("p1y", 620, 600, 100, 100, 0), TopOfBook("p1y", 660, 670, 100, 100, 0),
      TopOfBook("p2n", 520, 500, 100, 100, 0), TopOfBook("p2n", 660, 670, 100, 100, 0),
      TopOfBook("r1n", 820, 800, 100, 100, 0), TopOfBook("r1n", 660, 670, 100, 100, 0) }

\* The thresholds of make_engine; thresholds the profit of 0.10 on 1.90 meets
\* in absolute terms but not in basis points; and thresholds it meets in basis
\* points but not in absolute terms, with a cooldown.
TriangleConfigs ==
    { [ min_profit_bps |-> 30, min_profit_abs |-> 5, cooldown_ms |-> 0 ],
      [ min_profit_bps |-> 600, min_profit_abs |-> 5, cooldown_ms |-> 0 ],
      [ min_profit_bps |-> 30, min_profit_abs |-> 150, cooldown_ms |-> 1 ] }

NextTriangle ==
    \/ update_market_structure(<< TestGroup >>)
    \/ \E cfg \in TriangleConfigs : update_engine_config(cfg)
    \/ \E u \in TriangleUpdates : HandleTopOfBook(u)
    \/ Tick

SpecTriangle == InitEngine /\ [][NextTriangle]_vars

\* The triangle with free legs: for each leg of the test group the quote of
\* test_handle_top_of_book_triangle_buy and a quote of 0 / 0.
ZeroAskUpdates ==
    { TopOfBook("p1y", 620, 600, 100, 100, 0), TopOfBook("p1y", 0, 0, 100, 100, 0),
      TopOfBook("p2n", 520, 500, 100, 100, 0), TopOfBook("p2n", 0, 0, 100, 100, 0),
      TopOfBook("r1n", 820, 800, 100, 100, 0), TopOfBook("r1n", 0, 0, 100, 100, 0) }

NextZeroAsk ==
    \/ update_market_structure(<< TestGroup >>)
    \/ \E cfg \in TriangleConfigs : update_engine_config(cfg)
    \/ \E u \in ZeroAskUpdates : HandleTopOfBook(u)
    \/ Tick

SpecZeroAsk == InitEngine /\ [][NextZeroAsk]_vars

\* The order construction alone: the executor idle, one order's inputs drawn.
InitPricing ==
    /\ InitExecutor
    /\ config.default_size = MIN_ORDER_SIZE
    /\ EngineInit
    /\ order \in OrderInputs
    /\ prepared = NothingPrepared
    /\ built = NothingBuilt
    /\ signing = NothingSigned
    /\ SocketInit
    /\ socket_config = SocketConfig(NoneVal, NoneVal, NoneVal, NoneVal)
    /\ overflow_checks = FALSE
    /\ executor_rx = << >>
    /\ batch = NoBatch
    /\ executor_state = TRUE
    /\ executor_init = InitializedOnce

NextPricing ==
    \/ ApplySlippage
    \/ \E b \in BOOLEAN : PrepareBatchOrders(b)
    \/ PlaceBatchOrdersRust

SpecPricing == InitPricing /\ [][NextPricing]_vars

\* The connection table: subscribe and unsubscribe calls with lists of up to
\* MaxTokens of two tokens (repeats included), rosters of one, two and fifty
\* tokens.
InitSocket ==
    /\ InitExecutor
    /\ config.default_size = MIN_ORDER_SIZE
    /\ EngineInit
    /\ order = NoOrder
    /\ prepared = NothingPrepared
    /\ built = NothingBuilt
    /\ signing = NothingSigned
    /\ SocketInit
    /\ executor_rx = << >>
    /\ batch = NoBatch
    /\ executor_state = FALSE
    /\ executor_init = NotInitialized

NextRoster ==
    \/ \E l \in TokenLists : subscribe_tokens(l)
    \/ \E l \in TokenLists : unsubscribe_tokens(l)

InitRoster == InitSocket /\ socket_config \in RosterConfigs /\ overflow_checks = FALSE

SpecRoster == InitRoster /\ [][NextRoster]_vars

\* The backoff: one connection whose attempts fail up to MaxAttempts times in
\* a row, in a build that checks arithmetic overflow and in one that does not.
NextBackoff ==
    \/ ws = << >> /\ subscribe_tokens(<< "t1" >>)
    \/ RunCheck(1)
    \/ ConnectOk(1)
    \/ ConnectErr(1, MaxAttempts)
    \/ ReadErr(1, MaxAttempts)
    \/ ReadClosed(1)
    \/ BackoffElapsed(1)

InitBackoff == InitSocket /\ socket_config \in BackoffConfigs /\ overflow_checks \in BOOLEAN

SpecBackoff == InitBackoff /\ [][NextBackoff]_vars

\* The shutdown: two connections of one token each, whose attempts fail at
\* most MaxFailures times in a row, with at most MaxRaw messages waiting for a
\* parser, and one shutdown call.
ShutdownLists == { << "t1", "t2" >> }

TaskStep(i) ==
    \/ RunCheck(i)
    \/ ConnectOk(i)
    \/ ConnectErr(i, MaxFailures)
    \/ ReadErr(i, MaxFailures)
    \/ ReadClosed(i)
    \/ ReadMessage(i)
    \/ ShutdownChanged(i)
    \/ BackoffElapsed(i)
    \/ BackoffShutdown(i)
    \/ ParserRecv(i)
    \/ ParserEnd(i)

NextShutdown ==
    \/ \E l \in ShutdownLists : subscribe_tokens(l)
    \/ \E i \in 1..Len(ws) : TaskStep(i)
    \/ Shutdown
    \/ AwaitHandle
    \/ ShutdownReturn

\* What a connection task does without the server's doing: the check, the end
\* of a connection attempt, the shutdown branch of a select, the end of a sleep.
TaskProgress(i) ==
    \/ RunCheck(i)
    \/ ConnectOk(i)
    \/ ConnectErr(i, MaxFailures)
    \/ ShutdownChanged(i)
    \/ BackoffElapsed(i)
    \/ BackoffShutdown(i)

\* The runtime polls every spawned task that can make progress; select! picks
\* among its ready branches at random, so a ready shutdown branch is taken;
\* a connection attempt and a sleep end.
TaskFairness(i) ==
    /\ WF_vars(TaskProgress(i))
    /\ WF_vars(ParserRecv(i) \/ ParserEnd(i))

ShutdownFairness ==
    /\ \A i \in 1..2 : TaskFairness(i)
    /\ WF_vars(AwaitHandle)
    /\ WF_vars(ShutdownReturn)

InitShutdown == InitSocket /\ socket_config \in ShutdownConfigs /\ overflow_checks = FALSE

SpecShutdown == InitShutdown /\ [][NextShutdown]_vars /\ ShutdownFairness

\* The hand-over: the engine with the test group and no cooldown, quotes of
\* the lower parent's YES token that make the triangle qualify and fail by
\* turns, and an executor that takes a signal off the channel and is busy
\* with it for as long as it likes.
ChannelUpdates ==
    { TopOfBook("p1y", 620, 600, 100, 100, 0),
      TopOfBook("p1y", 800, 820, 100, 100, 0),
      TopOfBook("p2n", 520, 500, 100, 100, 0),
      TopOfBook("r1n", 820, 800, 100, 100, 0) }

InitChannel ==
    /\ InitExecutor
    /\ config.default_size = MIN_ORDER_SIZE
    /\ InitRest
    /\ executor_state = TRUE
    /\ executor_init = InitializedOnce

NextChannel ==
    \/ groups = << >> /\ update_market_structure(<< TestGroup >>)
    \/ engine_config.cooldown_ms # 0 /\ update_engine_config([ EngineConfigDefault EXCEPT !.cooldown_ms = 0 ])
    \/ \E u \in ChannelUpdates : HandleTopOfBook(u)
    \/ ExecutorRecv(Executor)
    \/ ExecutorReturns(Executor)

SpecChannel == InitChannel /\ [][NextChannel]_vars

\* The batch entry point: the host places batches before and after
\* init_executor.
InitBatch ==
    /\ InitExecutor
    /\ config.default_size = MIN_ORDER_SIZE
    /\ InitRest
    /\ executor_state = FALSE
    /\ executor_init = NotInitialized

NextBatch ==
    \/ \E ok \in BOOLEAN : init_executor(ok)
    \/ \E o \in BatchOrders, ok \in BOOLEAN, http \in HttpOutcomes : PlaceBatch(o, ok, http)

SpecBatch == InitBatch /\ [][NextBatch]_vars

\* The triangle with missing quotes: for each leg of the test group the quote
\* of test_handle_top_of_book_triangle_buy, the same with no bid and the same
\* with no ask (the parser's NaN).
NanLegUpdates ==
    UNION { { TopOfBook(q[1], q[2], q[3], 100, 100, 0),
              TopOfBook(q[1], NaN, q[3], 100, 100, 0),
              TopOfBook(q[1], q[2], NaN, 100, 100, 0) } :
            q \in { << "p1y", 620, 600 >>, << "p2n", 520, 500 >>, << "r1n", 820, 800 >> } }

NextNanLegs ==
    \/ update_market_structure(<< TestGroup >>)
    \/ \E cfg \in CooldownConfigs : update_engine_config(cfg)
    \/ \E u \in NanLegUpdates : HandleTopOfBook(u)
    \/ Tick

SpecNanLegs == InitEngine /\ [][NextNanLegs]_vars

\* The hand-over with a clock: the signals carry the time they were built at,
\* so the queued ones and a new one can be told apart.
NextChannelOrder ==
    \/ NextChannel
    \/ Tick

SpecChannelOrder == InitChannel /\ [][NextChannelOrder]_vars

\* The candidates alone: one signal drawn, build_order_candidates applied.
InitCandidates ==
    /\ InitExecutor
    /\ config.default_size = MIN_ORDER_SIZE
    /\ EngineInit
    /\ order = NoOrder
    /\ prepared = NothingPrepared
    /\ built \in { [ NothingBuilt EXCEPT !.signal = s ] : s \in CandidateSignals }
    /\ signing = NothingSigned
    /\ SocketInit
    /\ socket_config = SocketConfig(NoneVal, NoneVal, NoneVal, NoneVal)
    /\ overflow_checks = FALSE
    /\ executor_rx = << >>
    /\ batch = NoBatch
    /\ executor_state = TRUE
    /\ executor_init = InitializedOnce

NextCandidates == BuildOrderCandidates

SpecCandidates == InitCandidates /\ [][NextCandidates]_vars

\* The signer alone: one batch drawn, sign_batch_orders applied.
InitSigner ==
    /\ InitExecutor
    /\ config.default_size = MIN_ORDER_SIZE
    /\ EngineInit
    /\ order = NoOrder
    /\ prepared = NothingPrepared
    /\ built = NothingBuilt
    /\ signing \in { [ NothingSigned EXCEPT !.orders = o ] : o \in SignBatches }
    /\ SocketInit
    /\ socket_config = SocketConfig(NoneVal, NoneVal, NoneVal, NoneVal)
    /\ overflow_checks = FALSE
    /\ executor_rx = << >>
    /\ batch = NoBatch
    /\ executor_state = TRUE
    /\ executor_init = InitializedOnce

NextSigner == SignBatchOrders

SpecSigner == InitSigner /\ [][NextSigner]_vars

\* The rebuild: the engine with quotes cached and trios in cooldown is handed
\* no group, the test group, or the test group and the chain group.
NextRebuild ==
    \/ \E G \in RebuildInputs : update_market_structure(G)
    \/ \E cfg \in CooldownConfigs : update_engine_config(cfg)
    \/ \E u \in CooldownUpdates : HandleTopOfBook(u)
    \/ EvaluateRange(0, "p1y")
    \/ Tick

SpecRebuild == InitEngine /\ [][NextRebuild]_vars

\* =================================================================== claims

\* Positions at which an invocation has taken is_submitting and not released it.
Holding ==
    {"deduct_load", "deduct_cas", "stamp", "post_await",
     "sign_restore_get", "sign_restore_set", "sign_release", "panicked"}

\* C1: under overlapping process_signal invocations at most one invocation is
\* between its successful compare-and-set of is_submitting and its release, the
\* flag is true throughout signing and POST, and no two invocations are in the
\* balance-deduction step together.
C1_SubmitExclusive ==
    /\ Cardinality({ p \in Procs : pc[p] \in Holding }) <= 1
    /\ \A p \in Procs : pc[p] \in {"stamp", "post_await"} => is_submitting
    /\ \A p, q \in Procs :
         (p # q /\ pc[p] \in {"deduct_load", "deduct_cas"})
            => pc[q] \notin {"deduct_load", "deduct_cas"}

\* C1 witness: one invocation awaits its POST while the other lost the
\* compare-and-set.
C1_Witness ==
    \E p, q \in Procs :
        /\ pc[p] = "post_await"
        /\ pc[q] = "done"
        /\ outcome[q] = "LockLost"

\* C2: usdc_balance is never negative; a try_deduct_balance that returns false
\* leaves it unchanged and one that returns true lowers it by exactly amount.
C2_BalanceNeverNegative ==
    /\ [](usdc_balance >= 0)
    /\ [][\A p \in Procs :
            /\ (pc[p] = "deduct_cas" /\ pc'[p] = "done")
                  => usdc_balance' = usdc_balance
            /\ (pc[p] = "deduct_cas" /\ pc'[p] = "stamp")
                  => usdc_balance' = usdc_balance - validation_result[p].required_cost]_vars

\* C2 witness: try_deduct_balance returned false on a positive balance.
C2_Witness ==
    /\ pc[Executor] = "done"
    /\ outcome[Executor] = "DeductFailed"
    /\ usdc_balance > 0

RestoreStep(p) ==
    /\ pc[p] \in {"sign_restore_set", "post_restore_set"}
    /\ pc'[p] # pc[p]

\* C3 as stated: after a batch-wide failure the restore leaves usdc_balance at
\* the value it had before the deduction.
C3_RestoredToBefore ==
    [][\A p \in Procs : RestoreStep(p) => usdc_balance' = balance_before[p]]_vars

\* C3 amended: the same, provided no host update_balance landed between the
\* deduction and the restoring store.
C3_RestoredToBeforeUnlessRefreshed ==
    [][\A p \in Procs :
          (RestoreStep(p) /\ ~refreshed[p]) => usdc_balance' = balance_before[p]]_vars

\* C3 witness: a failed POST was compensated with no refresh in between and
\* the balance is back at its value before the deduction.
C3_Witness ==
    /\ pc[Executor] = "emit"
    /\ ~post_result[Executor].success
    /\ ~refreshed[Executor]
    /\ validation_result[Executor].required_cost > 0
    /\ usdc_balance = balance_before[Executor]

\* C4: the restore is an additive compensation atomic against a host
\* update_balance: its store leaves the balance at the current value plus
\* required_cost (host store, then compensation) or, when a host store landed
\* after the restore's read, at that host value (compensation, then host store).
C4_RestoreIsAtomicCompensation ==
    [][\A p \in Procs :
          RestoreStep(p) =>
            \/ usdc_balance' = usdc_balance + validation_result[p].required_cost
            \/ (balance[p] # usdc_balance /\ usdc_balance' = usdc_balance)]_vars

\* C5: an invocation that set is_submitting has set it back to false once it
\* is over, whichever way it ended, and the flag is false whenever the executor
\* waits for the next signal.
C5_AlwaysReleased ==
    pc[Executor] \in {"recv", "done", "panicked"} => ~is_submitting

\* The nine gates of should_skip, each stated on its own.
GateFails(k, sig) ==
    LET candidates == build_order_candidates(sig)
        total_cost == calculate_total_cost(sig)
    IN  CASE k = 1 -> ~trading_enabled
          [] k = 2 -> is_submitting
          [] k = 3 -> /\ last_executed_at > 0
                      /\ now - last_executed_at < config.opportunity_timeout_ms
          [] k = 4 -> Len(candidates) = 0
          [] k = 5 -> \E i \in 1..Len(candidates) :
                          /\ candidates[i].orderbook_size # NoneVal
                          /\ candidates[i].orderbook_size < config.default_size
          [] k = 6 -> IF total_cost > 0
                      THEN 100 * sig.profit_abs < config.min_pnl_threshold_percent * total_cost
                      ELSE config.min_pnl_threshold_percent > 0
          [] k = 7 -> config.default_size < MIN_ORDER_SIZE
          [] k = 8 -> \E i \in 1..Len(candidates) :
                          /\ candidates[i].side = "SELL"
                          /\ get_minted_amount(sig.group_key, candidates[i].token_id)
                                < config.default_size
          [] k = 9 -> usdc_balance < estimate_required_cost(candidates, config.default_size)

GateReason ==
    << "TradingDisabled", "AlreadySubmitting", "CooldownActive", "NoCandidates",
       "InsufficientOrderbookSize", "PnlBelowThreshold", "InvalidSize",
       "InsufficientMintedAssets", "InsufficientBalance" >>

\* C6: should_skip returns the reason of the first gate that fails, in the order
\* TradingDisabled, AlreadySubmitting, CooldownActive, NoCandidates,
\* InsufficientOrderbookSize, PnlBelowThreshold, InvalidSize,
\* InsufficientMintedAssets, InsufficientBalance, and OK with the candidates,
\* the size and the required cost only when all nine pass.
C6_GateOrder ==
    \A sig \in Signals :
        LET failing == { k \in 1..9 : GateFails(k, sig) }
            r == should_skip(sig)
        IN  IF failing = {}
            THEN /\ r.ok
                 /\ r.candidates = build_order_candidates(sig)
                 /\ r.size = config.default_size
                 /\ r.required_cost = estimate_required_cost(r.candidates, r.size)
            ELSE /\ ~r.ok
                 /\ \E k \in failing :
                      /\ \A j \in failing : k <= j
                      /\ r.reason = GateReason[k]

\* C6 witness: a signal passed the first eight gates and was skipped by the ninth.
C6_Witness ==
    /\ pc[Executor] = "done"
    /\ outcome[Executor] = "InsufficientBalance"

\* C7: while now - last_executed_at < opportunity_timeout_ms after a stamp, with
\* trading enabled and nothing submitting, every signal is skipped with
\* CooldownActive; and a new stamp is at least opportunity_timeout_ms after the
\* one it replaces.
C7_CooldownGap ==
    /\ [](\A sig \in Signals :
            ( /\ trading_enabled
              /\ ~is_submitting
              /\ last_executed_at > 0
              /\ now - last_executed_at < config.opportunity_timeout_ms )
            => should_skip(sig).reason = "CooldownActive")
    /\ [][(last_executed_at > 0 /\ last_executed_at' # last_executed_at)
            => last_executed_at' - last_executed_at >= config.opportunity_timeout_ms]_vars

\* C7 witness: a signal validated within the timeout of the last stamp was
\* skipped with CooldownActive.
C7_Witness ==
    /\ pc[Executor] = "done"
    /\ outcome[Executor] = "CooldownActive"
    /\ last_executed_at > 0
    /\ now - last_executed_at < config.opportunity_timeout_ms

SignFailurePath == {"sign_restore_get", "sign_restore_set", "sign_release"}

\* C8: after sign_batch_orders fails the attempt is aborted: the restore stores
\* the balance it read plus required_cost, is_submitting is set to false, and
\* the invocation returns with no POST made and no trade result emitted.
C8_SignFailureAborts ==
    /\ [](\A p \in Procs :
            (pc[p] \in SignFailurePath \/ (pc[p] = "done" /\ outcome[p] = "SignFailed"))
            => (posts[p] = 0 /\ delivered[p] = << >>))
    /\ [][\A p \in Procs :
            /\ (pc[p] = "stamp" /\ pc'[p] # "stamp"
                /\ ~sign_batch_orders_ok(prepare_batch_orders(validation_result[p].candidates)))
                  => pc'[p] = "sign_restore_get"
            /\ (pc[p] = "sign_restore_get" /\ pc'[p] # pc[p])
                  => pc'[p] = "sign_restore_set"
            /\ (pc[p] = "sign_restore_set" /\ pc'[p] # pc[p])
                  => /\ pc'[p] = "sign_release"
                     /\ usdc_balance' = balance[p] + validation_result[p].required_cost
            /\ (pc[p] = "sign_release" /\ pc'[p] # pc[p])
                  => /\ pc'[p] = "done"
                     /\ outcome'[p] = "SignFailed"
                     /\ ~is_submitting']_vars

\* C8 witness: an invocation whose signing failed has returned.
C8_Witness ==
    /\ pc[Executor] = "done"
    /\ outcome[Executor] = "SignFailed"
    /\ ~is_submitting
    /\ balance_before[Executor] > 0

WholeFailure(pr) == pr.error \in {"HTTP request failed", "HTTP status"}

\* C9: after a POST that fails as a whole (transport error or non-2xx status)
\* the restore stores the balance it read plus required_cost, and exactly one
\* TradeResult, with success = false and no order ids, is handed to the
\* registered callback.
C9_PostFailureReported ==
    /\ [](\A p \in Procs : Len(delivered[p]) <= 1)
    /\ [][\A p \in Procs :
            /\ (pc[p] = "post_await" /\ pc'[p] # pc[p] /\ WholeFailure(post_result'[p]))
                  => pc'[p] = "post_restore_get"
            /\ (pc[p] = "post_restore_get" /\ pc'[p] # pc[p])
                  => pc'[p] = "post_restore_set"
            /\ (pc[p] = "post_restore_set" /\ pc'[p] # pc[p])
                  => /\ pc'[p] = "emit"
                     /\ usdc_balance' = balance[p] + validation_result[p].required_cost
            /\ (pc[p] = "emit" /\ pc'[p] # pc[p] /\ WholeFailure(post_result[p])
                /\ on_trade_result)
                  => /\ Len(delivered'[p]) = 1
                     /\ delivered'[p][1].success = FALSE
                     /\ delivered'[p][1].order_ids = << >>
                     /\ delivered'[p][1].total_cost = validation_result[p].required_cost]_vars

\* C9 witness: the callback got the one failed TradeResult of a POST that
\* failed as a whole.
C9_Witness ==
    /\ pc[Executor] = "done"
    /\ WholeFailure(post_result[Executor])
    /\ Len(delivered[Executor]) = 1
    /\ ~delivered[Executor][1].success

\* Response indexes with and without an orderID, and an index's rank among them.
Accepted(responses) == { i \in 1..Len(responses) : responses[i].order_id # NoneVal }

Rejected(responses) == { i \in 1..Len(responses) : responses[i].order_id = NoneVal }

Rank(set, i) == Cardinality({ j \in set : j <= i })

\* C10: after a 2xx answer every response with an orderID is reported in
\* order_ids, every leg whose response lacks one is reported in failed_orders
\* with the token, side and price of the candidate at the same index, and no
\* step of the invocation touches usdc_balance afterwards.
C10_PerLegReport ==
    /\ [](\A p \in Procs :
            (pc[p] \in {"deduct_minted", "emit"} /\ post_result[p].success) =>
              LET rs == post_result[p].responses
                  cs == validation_result[p].candidates
                  tr == trade_result[p]
              IN  /\ Len(tr.order_ids) = Cardinality(Accepted(rs))
                  /\ \A i \in Accepted(rs) :
                        tr.order_ids[Rank(Accepted(rs), i)] = rs[i].order_id
                  /\ Len(tr.failed_orders) = Cardinality(Rejected(rs))
                  /\ \A i \in Rejected(rs) :
                        i <= Len(cs) =>
                          LET f == tr.failed_orders[Rank(Rejected(rs), i)]
                          IN  /\ f.token_id = cs[i].token_id
                              /\ f.side = cs[i].side
                              /\ f.price = cs[i].price)
    /\ [][\A p \in Procs :
            (pc[p] \in {"deduct_minted", "emit"} /\ post_result[p].success /\ pc'[p] # pc[p])
              => usdc_balance' = usdc_balance]_vars

\* C10 witness: a 2xx batch with one accepted and one rejected leg is about to
\* be reported.
C10_Witness ==
    /\ pc[Executor] = "emit"
    /\ post_result[Executor].success
    /\ Len(trade_result[Executor].order_ids) = 1
    /\ Len(trade_result[Executor].failed_orders) = 1
    /\ trade_result[Executor].failed_orders[1].side = "BUY"

\* The SELL legs of invocation p on token t whose response carries an orderID.
SoldLegs(p, t) ==
    { i \in 1..Len(validation_result[p].candidates) :
        /\ validation_result[p].candidates[i].side = "SELL"
        /\ validation_result[p].candidates[i].token_id = t
        /\ i <= Len(post_result[p].responses)
        /\ post_result[p].responses[i].order_id # NoneVal }

MintedAmount(cache, g, t) == UnwrapOr(cache[g][t], 0)

\* C11: after a 2xx POST the minted amount of each token sold by an accepted
\* SELL leg goes down by size, but not below 0; the amounts of failed sell
\* legs, of buy legs and of other groups stay as they are; and an invocation
\* whose batch failed as a whole makes no minted deduction.
C11_MintedDeduction ==
    [][\A p \in Procs :
        /\ (pc[p] = "deduct_minted" /\ pc'[p] # pc[p]) =>
              \A g \in DOMAIN minted_assets : \A t \in Tokens :
                 MintedAmount(minted_assets', g, t) =
                    IF g = signal[p].group_key
                    THEN Max(MintedAmount(minted_assets, g, t)
                               - validation_result[p].size * Cardinality(SoldLegs(p, t)), 0)
                    ELSE MintedAmount(minted_assets, g, t)
        /\ (pc[p] # "deduct_minted" /\ pc'[p] # pc[p]) => minted_assets' = minted_assets
        /\ (pc'[p] = "deduct_minted" /\ pc'[p] # pc[p]) => post_result'[p].success]_vars

\* C11 witness: of two SELL legs only the first was accepted; its token went
\* from MIN_ORDER_SIZE + 1 down to 1, the rejected leg's token kept its amount
\* and so did the other group.
C11_Witness ==
    /\ pc[Executor] = "emit"
    /\ signal[Executor].strategy = "BUY_PARENT_SELL_CHILDREN"
    /\ Len(post_result[Executor].responses) = 2
    /\ post_result[Executor].responses[2].order_id # NoneVal
    /\ minted_assets["g1"]["102"] = 1
    /\ minted_assets["g1"]["103"] = MIN_ORDER_SIZE + 1
    /\ minted_assets[OtherGroup]["102"] = MIN_ORDER_SIZE + 1

\* An update that is not newer than the cached last price of its token, both
\* timestamps positive.
Stale(u) ==
    /\ u.asset_id \in DOMAIN last_price_cache
    /\ last_price_cache[u.asset_id].timestamp_ms > 0
    /\ u.timestamp_ms > 0
    /\ u.timestamp_ms <= last_price_cache[u.asset_id].timestamp_ms

\* C12: handle_top_of_book for a token whose cached last price has a positive
\* timestamp, called with a positive timestamp not above the cached one,
\* returns no signal, writes no price slot and leaves the cache unchanged.
C12_StaleUpdateIgnored ==
    [][\A u \in DirtyUpdates :
          (Stale(u) /\ HandleTopOfBook(u)) =>
             /\ returned'.signals = << >>
             /\ slots' = slots
             /\ last_price_cache' = last_price_cache]_vars

\* C12 witness: the last update handled was for a token with a slot, had a
\* positive timestamp not above the cached one and another price than the
\* cached one, and the slot still holds the cached price.
C12_Witness ==
    /\ call.op = "handle_top_of_book"
    /\ call.update.asset_id \in DOMAIN token_to_slot
    /\ call.update.asset_id \in DOMAIN last_price_cache
    /\ call.update.timestamp_ms > 0
    /\ call.update.timestamp_ms <= last_price_cache[call.update.asset_id].timestamp_ms
    /\ call.update.best_bid # last_price_cache[call.update.asset_id].bid
    /\ slots[token_to_slot[call.update.asset_id] + 1].best_bid
          = last_price_cache[call.update.asset_id].bid
    /\ returned.signals = << >>

\* The descriptors of a pushed list that carry both token ids, in their order.
WithTokens(ms) == SelectSeq(ms, LAMBDA m : Len(m.clob_token_ids) >= 2)

\* The parent pairs of one pushed group that are consecutive in the supplied
\* order (among the descriptors with both token ids), both "above" with a lower
\* bound, and joined by some range child: the index of each pair's lower parent.
ConnectedPairs(g) ==
    LET parents == WithTokens(g.parents)
        children == WithTokens(g.children)
    IN  { i \in 1..(Len(parents) - 1) :
            /\ MarketKind_from_str(parents[i].kind) = "Above"
            /\ MarketKind_from_str(parents[i + 1].kind) = "Above"
            /\ parents[i].bounds_lower # NoneVal
            /\ parents[i + 1].bounds_lower # NoneVal
            /\ \E c \in 1..Len(children) :
                  /\ MarketKind_from_str(children[c].kind) = "Range"
                  /\ children[c].bounds_lower = parents[i].bounds_lower
                  /\ children[c].bounds_upper = parents[i + 1].bounds_lower }

RECURSIVE SumOver(_, _)
SumOver(f, n) == IF n = 0 THEN 0 ELSE f[n] + SumOver(f, n - 1)

\* C13: update_market_structure returns the number, summed over the groups, of
\* adjacent parent pairs with a connecting range child, and builds one trio per
\* such pair, whatever the number and order of the range children.
C13_TrioCountIsConnectedPairs ==
    call.op = "update_market_structure" =>
       /\ Len(groups) = Len(call.groups_input)
       /\ returned.trio_count =
             SumOver([ g \in 1..Len(call.groups_input) |->
                          Cardinality(ConnectedPairs(call.groups_input[g])) ],
                     Len(call.groups_input))
       /\ \A g \in 1..Len(groups) :
             Len(groups[g].trio_states) =
                Cardinality(ConnectedPairs(call.groups_input[g]))

\* A group with the cooldown stamps of all its trios cleared.
Unstamped(group) ==
    [ group EXCEPT !.trio_states =
        [ i \in 1..Len(group.trio_states) |->
            [ group.trio_states[i] EXCEPT !.last_emitted_buy_ms = 0,
                                          !.last_emitted_unbundle_ms = 0,
                                          !.last_emitted_bundle_ms = 0 ] ] ]

\* The strategies the engine's evaluators emit.
EngineStrategies ==
    { "POLYMARKET_TRIANGLE_BUY", "SELL_PARENT_BUY_CHILDREN", "BUY_PARENT_SELL_CHILDREN" }

\* The prices in the table qualify trio i (from 0) of the group for the strategy:
\* its evaluator emits when no cooldown stands in the way.
Qualifies(strategy, group, i, table, cfg, now_ms) ==
    IF strategy = "POLYMARKET_TRIANGLE_BUY"
    THEN evaluate_single_trio(Unstamped(group), i, table, cfg, now_ms).signal # NoSig
    ELSE IF strategy = "SELL_PARENT_BUY_CHILDREN"
    THEN evaluate_unbundling(Unstamped(group), i, table, cfg, now_ms).signal # NoSig
    ELSE evaluate_bundling(Unstamped(group), i, table, cfg, now_ms).signal # NoSig

\* This step evaluates trio i of group g (both from 0) for the strategy: an
\* update that passes the dirty check for one of the trio's triangle legs, or
\* a call of the range evaluator for the trio.
Evaluates(strategy, g, i) ==
    IF strategy = "POLYMARKET_TRIANGLE_BUY"
    THEN \E u \in CooldownUpdates :
            /\ HandleTopOfBook(u)
            /\ is_price_changed(last_price_cache, u).changed
            /\ u.asset_id \in DOMAIN token_to_slot
            /\ u.asset_id \in DOMAIN token_index
            /\ \E r \in 1..Len(token_index[u.asset_id]) :
                  /\ token_index[u.asset_id][r].kind = "TrioLeg"
                  /\ token_index[u.asset_id][r].group_idx = g
                  /\ token_index[u.asset_id][r].idx = i
    ELSE /\ EvaluateRange(g, "p1y")
         /\ \E k \in 1..Len(groups[g + 1].trio_lookup_by_asset["p1y"]) :
               groups[g + 1].trio_lookup_by_asset["p1y"][k] = i

\* C14: with cooldown_ms > 0, after a trio emitted a signal of a strategy at
\* time t, every evaluation of that trio and strategy at a time now with
\* now - t < cooldown_ms returns no signal, and a qualifying evaluation with
\* now - t >= cooldown_ms emits again; with cooldown_ms = 0 every qualifying
\* evaluation emits.  A trio is the one update_market_structure built.
C14_Cooldown ==
    [][\A strategy \in EngineStrategies : \A g \in 1..Len(groups) :
         \A i \in 1..Len(groups[g].trio_states) :
            LET key == << groups[g].group_key, groups[g].trio_states[i].lower_yes_token,
                          strategy >>
                t == LastEmitted(emitted, key)
                cooldown_ms == engine_config.cooldown_ms
                qualifies == Qualifies(strategy, groups[g], i - 1, slots', engine_config, now)
                emits == \E k \in 1..Len(returned'.signals) :
                            SignalKey(returned'.signals[k]) = key
            IN  Evaluates(strategy, g - 1, i - 1) =>
                  /\ (cooldown_ms > 0 /\ t > 0 /\ now - t < cooldown_ms) => ~emits
                  /\ (cooldown_ms > 0 /\ t > 0 /\ now - t >= cooldown_ms /\ qualifies)
                        => emits
                  /\ (cooldown_ms = 0 /\ qualifies) => emits
                  /\ emits => LastEmitted(emitted', key) = now]_vars

\* C14 witness: with a cooldown of 1 ms the bundling of the trio emitted at 2,
\* and the range evaluation just made, still at 2 with the prices qualifying,
\* returned nothing; the triangle, which emitted at 1 and was evaluated again
\* at 2, emitted again.
C14_Witness ==
    /\ engine_config.cooldown_ms = 1
    /\ now = 2
    /\ LastEmitted(emitted, << "g1", "p1y", "BUY_PARENT_SELL_CHILDREN" >>) = 2
    /\ LastEmitted(emitted, << "g1", "p1y", "POLYMARKET_TRIANGLE_BUY" >>) = 2
    /\ call.op = "evaluate_trios_for_range_arbitrage"
    /\ returned.signals = << >>
    /\ Qualifies("BUY_PARENT_SELL_CHILDREN", groups[1], 0, slots, engine_config, now)

\* The tokens a trio refers to: its three triangle legs.
TrioTokens(trio) == { trio.lower_yes_token, trio.upper_no_token, trio.range_no_token }

\* The slot indices a trio stores.
TrioSlots(trio) == { trio.lower_yes_slot, trio.upper_no_slot, trio.range_no_slot }

ValidSlot(slot) == slot \in 0..(Len(slots) - 1)

\* C15: after any sequence of update_market_structure and handle_top_of_book
\* calls every token a trio refers to (its legs and the tokens it is indexed
\* under) is in token_to_slot, and every slot index stored in a trio, in a
\* market meta or in token_to_slot is an index into the slot array.
C15_SlotsResolve ==
    /\ \A t \in DOMAIN token_to_slot : ValidSlot(token_to_slot[t])
    /\ \A g \in 1..Len(groups) :
          /\ \A i \in 1..Len(groups[g].trio_states) :
                /\ TrioTokens(groups[g].trio_states[i]) \subseteq DOMAIN token_to_slot
                /\ \A s \in TrioSlots(groups[g].trio_states[i]) : ValidSlot(s)
                /\ groups[g].trio_states[i].lower_yes_slot
                      = token_to_slot[groups[g].trio_states[i].lower_yes_token]
                /\ groups[g].trio_states[i].upper_no_slot
                      = token_to_slot[groups[g].trio_states[i].upper_no_token]
                /\ groups[g].trio_states[i].range_no_slot
                      = token_to_slot[groups[g].trio_states[i].range_no_token]
          /\ DOMAIN groups[g].trio_lookup_by_asset \subseteq DOMAIN token_to_slot
          /\ \A m \in 1..Len(groups[g].child_metas) :
                ValidSlot(groups[g].child_metas[m].yes_slot)
                   /\ ValidSlot(groups[g].child_metas[m].no_slot)
          /\ \A m \in 1..Len(groups[g].parent_metas) :
                ValidSlot(groups[g].parent_metas[m].yes_slot)
                   /\ ValidSlot(groups[g].parent_metas[m].no_slot)

\* C15 witness: two groups sharing their tokens hold three trios between them,
\* and an update has been written to the slot of one of their legs.
C15_Witness ==
    /\ Len(groups) = 2
    /\ Len(groups[1].trio_states) = 1
    /\ Len(groups[2].trio_states) = 2
    /\ call.op = "handle_top_of_book"
    /\ slots[token_to_slot[call.update.asset_id] + 1].best_ask = call.update.best_ask

\* Both tokens of the lower parent, the upper parent and the range child of a
\* trio of the group.
MarketTokens(group, trio) ==
    UNION { { group.parent_metas[trio.parent_lower_idx + 1].clob_token_ids[k],
              group.parent_metas[trio.parent_upper_idx + 1].clob_token_ids[k],
              group.child_metas[trio.range_idx + 1].clob_token_ids[k] } : k \in 1..2 }

\* The tokens of the markets that take part in some trio of some group.
TokensOfTrioMarkets ==
    UNION { UNION { MarketTokens(groups[g], groups[g].trio_states[i]) :
                    i \in 1..Len(groups[g].trio_states) } :
            g \in 1..Len(groups) }

\* C16: after update_market_structure every allocated price slot belongs to a
\* token of a market that takes part in at least one trio.
C16_EverySlotInATrio == DOMAIN token_to_slot \subseteq TokensOfTrioMarkets

\* The token has a Parent or a RangeChild role in the token index.
HasRangeRole(asset_id) ==
    /\ asset_id \in DOMAIN token_index
    /\ \E r \in 1..Len(token_index[asset_id]) :
          token_index[asset_id][r].kind \in { "Parent", "RangeChild" }

\* C17: with cooldown 0, an update of a YES token that has a Parent or
\* RangeChild role and completes a range opportunity of a trio it is indexed
\* under (the lower parent's YES bid less the asks of the range's and the upper
\* parent's YES meets the thresholds) makes handle_top_of_book return a
\* SELL_PARENT_BUY_CHILDREN signal with that profit.
C17_RangeSignalReturned ==
    [][\A u \in CooldownUpdates : \A g \in 1..Len(groups) :
         \A i \in 1..Len(groups[g].trio_states) :
            ( /\ HandleTopOfBook(u)
              /\ engine_config.cooldown_ms = 0
              /\ is_price_changed(last_price_cache, u).changed
              /\ HasRangeRole(u.asset_id)
              /\ u.asset_id \in DOMAIN groups[g].trio_lookup_by_asset
              /\ \E k \in 1..Len(groups[g].trio_lookup_by_asset[u.asset_id]) :
                    groups[g].trio_lookup_by_asset[u.asset_id][k] = i - 1
              /\ Qualifies("SELL_PARENT_BUY_CHILDREN", groups[g], i - 1, slots',
                           engine_config, now) )
            => \E k \in 1..Len(returned'.signals) :
                  /\ returned'.signals[k].strategy = "SELL_PARENT_BUY_CHILDREN"
                  /\ returned'.signals[k].profit_abs =
                        RangeSlots(groups[g], groups[g].trio_states[i], slots')
                              .parent_lower.best_bid
                        - ( RangeSlots(groups[g], groups[g].trio_states[i], slots')
                              .range_child.best_ask
                            + RangeSlots(groups[g], groups[g].trio_states[i], slots')
                              .parent_upper.best_ask )]_vars

\* The quotes of a trio's three triangle legs in a table.
Legs(trio, table) ==
    [ ly |-> PriceTable_get(table, trio.lower_yes_slot),
      un |-> PriceTable_get(table, trio.upper_no_slot),
      rn |-> PriceTable_get(table, trio.range_no_slot) ]

\* All bids and asks of the three legs are present.
AllPresent(legs) ==
    \A q \in { legs.ly, legs.un, legs.rn } : q.best_bid # NaN /\ q.best_ask # NaN

TotalAsk(legs) == legs.ly.best_ask + legs.un.best_ask + legs.rn.best_ask

\* The signal is the triangle signal of the trio with these legs: it carries
\* the profit, the total ask and the three legs' tokens and quotes.
IsTriangleSignal(sig, trio, legs) ==
    /\ sig.strategy = "POLYMARKET_TRIANGLE_BUY"
    /\ sig.profit_abs = 2 * Milli - TotalAsk(legs)
    /\ sig.triangle_total_cost = TotalAsk(legs)
    /\ sig.parent_asset_id = trio.lower_yes_token
    /\ sig.parent_best_bid = legs.ly.best_bid /\ sig.parent_best_ask = legs.ly.best_ask
    /\ sig.parent_upper_asset_id = trio.upper_no_token
    /\ sig.parent_upper_best_bid = legs.un.best_bid
    /\ sig.parent_upper_best_ask = legs.un.best_ask
    /\ sig.child_asset_id = trio.range_no_token
    /\ sig.child_best_bid = legs.rn.best_bid /\ sig.child_best_ask = legs.rn.best_ask

\* What an update u of a triangle leg of trio i of group g returns, against
\* the thresholds: when the legs' quotes are all present after it and the
\* trio's cooldown has elapsed, a triangle signal of the trio is returned if
\* and only if profit = 2 - total ask >= min_profit_abs and
\* profit / total ask x 10000 >= min_profit_bps, and it is the trio's signal.
TriangleDecision(u, g, i) ==
    LET trio == groups[g].trio_states[i]
        legs == Legs(trio, slots')
        profit == 2 * Milli - TotalAsk(legs)
        t == LastEmitted(emitted, << groups[g].group_key, trio.lower_yes_token,
                                     "POLYMARKET_TRIANGLE_BUY" >>)
        emits == \E k \in 1..Len(returned'.signals) :
                    /\ returned'.signals[k].strategy = "POLYMARKET_TRIANGLE_BUY"
                    /\ returned'.signals[k].parent_asset_id = trio.lower_yes_token
    IN  ( /\ AllPresent(legs)
          /\ (t = 0 \/ now - t >= engine_config.cooldown_ms) )
        => /\ emits <=> ( /\ profit >= engine_config.min_profit_abs
                          /\ profit * 10000 >= engine_config.min_profit_bps * TotalAsk(legs) )
           /\ \A k \in 1..Len(returned'.signals) :
                 returned'.signals[k].parent_asset_id = trio.lower_yes_token
                    => IsTriangleSignal(returned'.signals[k], trio, legs)

\* C18 as stated: every update of a triangle leg token, with the legs' quotes
\* present and the cooldown elapsed, emits POLYMARKET_TRIANGLE_BUY for the trio
\* if and only if the profit meets both thresholds, and the signal carries the
\* profit, the total ask and the legs' quotes.
C18_EveryLegUpdateDecides ==
    [][\A u \in TriangleUpdates : \A g \in 1..Len(groups) :
         \A i \in 1..Len(groups[g].trio_states) :
            (HandleTopOfBook(u) /\ u.asset_id \in TrioTokens(groups[g].trio_states[i]))
               => TriangleDecision(u, g, i)]_vars

\* C18 amended: the same of every update of a triangle leg token that passes
\* the dirty check; an update that repeats the token's cached price, or is not
\* newer than it, evaluates nothing and returns no signal.
C18_ChangedLegUpdateDecides ==
    [][\A u \in TriangleUpdates : \A g \in 1..Len(groups) :
         \A i \in 1..Len(groups[g].trio_states) :
            (HandleTopOfBook(u) /\ u.asset_id \in TrioTokens(groups[g].trio_states[i]))
               => IF is_price_changed(last_price_cache, u).changed
                  THEN TriangleDecision(u, g, i)
                  ELSE returned'.signals = << >> /\ slots' = slots]_vars

\* C18 witness: the update of the range's NO token to 0.82 / 0.80 completed
\* asks of 0.60, 0.50 and 0.80 and returned the triangle signal with profit
\* 0.10 on a total ask of 1.90.
C18_Witness ==
    /\ call.op = "handle_top_of_book"
    /\ call.update = TopOfBook("r1n", 820, 800, 100, 100, 0)
    /\ Len(returned.signals) = 1
    /\ returned.signals[1].strategy = "POLYMARKET_TRIANGLE_BUY"
    /\ returned.signals[1].profit_abs = 100
    /\ returned.signals[1].triangle_total_cost = 1900
    /\ returned.signals[1].parent_best_ask = 600
    /\ returned.signals[1].parent_upper_best_ask = 500
    /\ returned.signals[1].child_best_ask = 800

\* C19: for every candidate price in [0, 1] and either side the price
\* apply_slippage returns lies within [0.01, 0.99]: for a BUY it is
\* min(0.99, price + spread), for a SELL max(0.01, price - spread), the spread
\* being 0.001 when price >= 0.96 or price <= 0.04 and 0.01 otherwise.
C19_SlippageWithinRange ==
    prepared.slipped # NoneVal =>
       LET spread == IF order.price >= 960 \/ order.price <= 40 THEN 1 ELSE 10 IN
       /\ prepared.slipped >= 10
       /\ prepared.slipped <= 990
       /\ order.side = "BUY" => prepared.slipped = Min(990, order.price + spread)
       /\ order.side = "SELL" => prepared.slipped = Max(10, order.price - spread)

\* The amounts of an order as the two constructions are meant to compute them,
\* from the price in thousandths and the size in thousandths: the size rounded
\* to hundredths, the cost rounded to ten-thousandths, both in millionths.
ExpectedAmounts(o) ==
    LET size2 == round(o.size.n, 10)
        usdc4 == round(o.price * size2, 10)
    IN  IF o.side = "BUY"
        THEN [ side |-> 0, maker_amount |-> usdc4 * 100, taker_amount |-> size2 * 10000 ]
        ELSE [ side |-> 1, maker_amount |-> size2 * 10000, taker_amount |-> usdc4 * 100 ]

\* C20: with slippage disabled prepare_batch_orders and the inline construction
\* of place_batch_orders_rust give the same side, maker_amount and taker_amount
\* for the same price, size and side: for a BUY the maker amount is
\* round(round(price x round(size, 2), 4) x 10^6) and the taker amount
\* round(round(size, 2) x 10^6), for a SELL the two are swapped.
C20_SameAmounts ==
    /\ (prepared.executor # NoAmounts /\ ~prepared.slippage_enabled)
          => prepared.executor = ExpectedAmounts(order)
    /\ prepared.inline # NoAmounts => prepared.inline = ExpectedAmounts(order)
    /\ ( /\ prepared.executor # NoAmounts
         /\ ~prepared.slippage_enabled
         /\ prepared.inline # NoAmounts )
          => prepared.executor = prepared.inline

\* C20 witness: both constructions were made of a BUY of 5.005 at 0.335 with
\* slippage disabled; the size rounded to 5.01, the cost 1.67835 to 1.6784.
C20_Witness ==
    /\ order = [ price |-> 335, size |-> Real(5005, Milli), side |-> "BUY" ]
    /\ ~prepared.slippage_enabled
    /\ prepared.executor = [ side |-> 0, maker_amount |-> 1678400, taker_amount |-> 5010000 ]
    /\ prepared.inline = [ side |-> 0, maker_amount |-> 1678400, taker_amount |-> 5010000 ]

\* An update that repeats the cached bid and ask of its token (a missing side
\* repeated as missing) with a positive timestamp above the cached one.
SameQuoteNewer(u) ==
    /\ u.asset_id \in DOMAIN last_price_cache
    /\ last_price_cache[u.asset_id].bid = u.best_bid
    /\ last_price_cache[u.asset_id].ask = u.best_ask
    /\ u.timestamp_ms > 0
    /\ u.timestamp_ms > last_price_cache[u.asset_id].timestamp_ms

\* C28: an update with the same bid and ask as the cached state and a newer
\* positive timestamp advances only the cached timestamp: handle_top_of_book
\* returns no signal and writes nothing to the price slot.
C28_SameQuoteAdvancesTimestampOnly ==
    [][\A u \in DirtyUpdates :
          (SameQuoteNewer(u) /\ HandleTopOfBook(u)) =>
             /\ returned'.signals = << >>
             /\ slots' = slots
             /\ last_price_cache' =
                  [last_price_cache EXCEPT ![u.asset_id].timestamp_ms = u.timestamp_ms]]_vars

\* The same for quotes with both sides present, which is what the code does.
C28_NumericQuoteAdvancesTimestampOnly ==
    [][\A u \in DirtyUpdates :
          (SameQuoteNewer(u) /\ u.best_bid # NaN /\ u.best_ask # NaN /\ HandleTopOfBook(u)) =>
             /\ returned'.signals = << >>
             /\ slots' = slots
             /\ last_price_cache' =
                  [last_price_cache EXCEPT ![u.asset_id].timestamp_ms = u.timestamp_ms]]_vars

\* The range children of a pushed group that connect its adjacent parent pair
\* i: their positions, in input order, among the children with both token ids.
MatchingChildren(g, i) ==
    LET parents == WithTokens(g.parents)
        children == WithTokens(g.children)
    IN  { c \in 1..Len(children) :
            /\ MarketKind_from_str(children[c].kind) = "Range"
            /\ children[c].bounds_lower = parents[i].bounds_lower
            /\ children[c].bounds_upper = parents[i + 1].bounds_lower }

FirstOf(set) == CHOOSE c \in set : \A d \in set : c <= d

\* C29: when more than one range child matches an adjacent parent pair, the
\* trio built for the pair references the first matching child in input order.
C29_FirstMatchingChildWins ==
    call.op = "update_market_structure" =>
       \A g \in 1..Len(call.groups_input) :
          \A i \in ConnectedPairs(call.groups_input[g]) :
             Cardinality(MatchingChildren(call.groups_input[g], i)) > 1 =>
                \E t \in 1..Len(groups[g].trio_states) :
                   LET trio == groups[g].trio_states[t]
                       first == WithTokens(call.groups_input[g].children)
                                   [FirstOf(MatchingChildren(call.groups_input[g], i))]
                   IN  /\ trio.lower_yes_token =
                            WithTokens(call.groups_input[g].parents)[i].clob_token_ids[1]
                       /\ trio.range_no_token = first.clob_token_ids[2]

\* C30: when the three triangle asks sum to 0 the evaluator sets bps to 0, so
\* with min_profit_bps > 0 an update that leaves the three asks at 0 returns no
\* triangle signal.
C30_ZeroTotalAskRejected ==
    [][\A u \in ZeroAskUpdates : \A g \in 1..Len(groups) :
         \A i \in 1..Len(groups[g].trio_states) :
            ( /\ HandleTopOfBook(u)
              /\ u.asset_id \in TrioTokens(groups[g].trio_states[i])
              /\ AllPresent(Legs(groups[g].trio_states[i], slots'))
              /\ TotalAsk(Legs(groups[g].trio_states[i], slots')) = 0
              /\ engine_config.min_profit_bps > 0 )
            => \A k \in 1..Len(returned'.signals) :
                  returned'.signals[k].strategy # "POLYMARKET_TRIANGLE_BUY"]_vars

\* C27: when try_deduct_balance fails after is_submitting was acquired,
\* process_signal releases is_submitting and skips: none of its steps from the
\* lock to the failure writes usdc_balance or last_executed_at, and it ends with
\* nothing posted and no callback made; last_executed_at is stored only by an
\* invocation whose deduction succeeded.
C27_FailedDeductionSkips ==
    [][\A p \in Procs :
          /\ (pc[p] = "deduct_cas" /\ pc'[p] = "done") =>
                /\ current[p] < validation_result[p].required_cost
                /\ outcome'[p] = "DeductFailed"
                /\ is_submitting /\ ~is_submitting'
                /\ usdc_balance' = usdc_balance
                /\ last_executed_at' = last_executed_at
                /\ posts'[p] = 0
                /\ delivered'[p] = << >>
          /\ (pc[p] \in {"lock", "deduct_load", "deduct_cas"} /\ pc'[p] \notin {pc[p], "stamp"}) =>
                /\ usdc_balance' = usdc_balance
                /\ last_executed_at' = last_executed_at
          /\ (last_executed_at' # last_executed_at) =>
                \E q \in Procs :
                   /\ pc[q] = "stamp" /\ pc'[q] # "stamp"
                   /\ balance_before[q] >= validation_result[q].required_cost]_vars

\* C27 witness: an invocation validated against a sufficient balance, took the
\* flag, found the balance lowered by the host below its cost and ended with
\* the flag released.
C27_Witness ==
    /\ pc[Executor] = "done"
    /\ outcome[Executor] = "DeductFailed"
    /\ validation_result[Executor].ok
    /\ current[Executor] < validation_result[Executor].required_cost
    /\ usdc_balance = current[Executor]
    /\ ~is_submitting
    /\ posts[Executor] = 0


\* The tokens of a sequence of connection tasks, in order.
RECURSIVE task_tokens(_)
task_tokens(tasks) ==
    IF tasks = << >> THEN << >> ELSE Head(tasks).tokens \o task_tokens(Tail(tasks))

\* C22: after any sequence of subscribe_tokens and unsubscribe_tokens calls no
\* roster holds more than max_tokens_per_connection tokens; a subscribe call
\* starts one connection task per batch of at most that many tokens no roster
\* held (the batches are those tokens in order, every batch but the last
\* full), and starts none when every requested token is in a roster.
C22_RostersBounded ==
    [][LET max == max_tokens_per_connection(socket_config)
           requested == socket_call'.token_ids
           new == SelectSeq(requested, LAMBDA t : t \notin existing_tokens(connections))
           added == SubSeq(ws', Len(ws) + 1, Len(ws'))
       IN  /\ \A c \in DOMAIN connections' : Len(connections'[c]) <= max
           /\ socket_call'.op = "subscribe_tokens" =>
                /\ Len(ws') >= Len(ws)
                /\ SubSeq(ws', 1, Len(ws)) = ws
                /\ \A k \in 1..Len(added) :
                     /\ Len(added[k].tokens) \in 1..max
                     /\ k < Len(added) => Len(added[k].tokens) = max
                     /\ added[k].pc = "check"
                /\ task_tokens(added) = new
                /\ Len(parser') = Len(ws')
                /\ (Range(requested) \subseteq existing_tokens(connections)) => ws' = ws
      ]_vars

\* C22 witness: a subscribe call for a token a roster held and a token no
\* roster held started one connection task beside the running one.
C22_Witness ==
    /\ socket_call.op = "subscribe_tokens"
    /\ Len(socket_call.token_ids) = 2
    /\ Len(socket_call.started) = 1
    /\ Range(socket_call.token_ids) \cap existing_tokens(socket_call.before) # {}
    /\ Len(ws) = 2
    /\ Cardinality(DOMAIN connections) = 2


\* min(base_ms * 2^(n - 1), max_ms) for n >= 1, in unbounded arithmetic.
RECURSIVE capped_doubling(_, _, _)
capped_doubling(base_ms, max_ms, n) ==
    IF n <= 1 THEN Min(base_ms, max_ms)
    ELSE Min(2 * capped_doubling(base_ms, max_ms, n - 1), max_ms)

\* C23: after n >= 1 consecutive failed connection attempts the task sleeps
\* for min(base_ms * 2^(n - 1), max_ms), for every n: never above max_ms and
\* never below min(base_ms, max_ms).
C23_DelayDoublesToCap ==
    \A i \in 1..Len(ws) :
        LET base_ms == reconnect_base_delay_ms(socket_config)
            max_ms == reconnect_max_delay_ms(socket_config)
        IN  ws[i].reconnect_attempts >= 1 =>
              /\ ws[i].pc # "panicked"
              /\ ws[i].pc = "backoff" =>
                   /\ ws[i].delay_ms = capped_doubling(base_ms, max_ms, ws[i].reconnect_attempts)
                   /\ ws[i].delay_ms <= max_ms
                   /\ ws[i].delay_ms >= Min(base_ms, max_ms)


C25_EngineNeverBlocks ==
    /\ Len(executor_rx) <= CHANNEL_CAPACITY
    /\ \A u \in ChannelUpdates : ENABLED HandleTopOfBook(u)

\* C25 witness: the channel holds 16 signals, the executor is busy with one it
\* took, and the engine has just handled an update that produced a signal.
C25_Witness ==
    /\ Len(executor_rx) = CHANNEL_CAPACITY
    /\ pc[Executor] = "processing"
    /\ call.op = "handle_top_of_book"
    /\ Len(returned.signals) = 1


\* C26: place_batch_orders_rust signs and posts for 1 to 15 orders only: a
\* call with no order, and a call with more than 15, return success = false
\* with an error message and nothing signed or posted; a call before
\* init_executor fails with an error.
C26_BatchSizeGuard ==
    batch.returned # "" =>
        /\ (batch.initialized /\ (batch.orders = 0 \/ batch.orders > 15)) =>
              /\ batch.returned = "Ok"
              /\ ~batch.success
              /\ batch.error \notin { "", "None" }
              /\ batch.signed = 0 /\ batch.posted = 0 /\ batch.results = 0
        /\ ~batch.initialized =>
              /\ batch.returned = "Err"
              /\ batch.error # ""
              /\ batch.signed = 0 /\ batch.posted = 0
        /\ (batch.signed > 0 \/ batch.posted > 0) =>
              batch.initialized /\ batch.orders \in 1..15

\* C26 witness: after init_executor a batch of 16 orders was refused and
\* nothing was signed.
C26_Witness ==
    /\ executor_state
    /\ batch.initialized
    /\ batch.orders = 16
    /\ batch.returned = "Ok"
    /\ ~batch.success
    /\ batch.error = "Maximum 15 orders allowed per batch"
    /\ batch.signed = 0

\* The signal is a triangle signal on the three leg tokens of the trio.
OnTrio(sig, trio) ==
    /\ sig.strategy = "POLYMARKET_TRIANGLE_BUY"
    /\ sig.parent_asset_id = trio.lower_yes_token
    /\ sig.parent_upper_asset_id = trio.upper_no_token
    /\ sig.child_asset_id = trio.range_no_token

\* Every leg token of the trio has been quoted since the last
\* update_market_structure and its slot holds a bid and an ask.
LegsQuoted(trio, table, cache) ==
    /\ TrioTokens(trio) \subseteq DOMAIN cache
    /\ AllPresent(Legs(trio, table))

\* C31: a handle_top_of_book call after which a leg of a trio has no bid or no
\* ask, or has had no quote since update_market_structure, returns no triangle
\* signal on the trio and leaves the trio's last_emitted_buy_ms as it was.
C31_NoTriangleBeforeAllLegsQuoted ==
    [][\A u \in NanLegUpdates : HandleTopOfBook(u) =>
         \A g \in 1..Len(groups) : \A i \in 1..Len(groups[g].trio_states) :
            ~LegsQuoted(groups[g].trio_states[i], slots', last_price_cache')
               => /\ \A k \in 1..Len(returned'.signals) :
                        ~OnTrio(returned'.signals[k], groups[g].trio_states[i])
                  /\ groups'[g].trio_states[i].last_emitted_buy_ms
                        = groups[g].trio_states[i].last_emitted_buy_ms]_vars

\* C31 witness: the trio has emitted before, at a time above 0; then a quote
\* with no ask for the range's NO token, beside good quotes of the two parent
\* legs, returned no signal and the stamp is still the earlier one.
C31_Witness ==
    /\ call.op = "handle_top_of_book"
    /\ call.update = TopOfBook("r1n", 820, NaN, 100, 100, 0)
    /\ returned.signals = << >>
    /\ Len(groups) = 1
    /\ groups[1].trio_states[1].last_emitted_buy_ms > 0
    /\ now > groups[1].trio_states[1].last_emitted_buy_ms
    /\ engine_config.cooldown_ms = 0
    /\ PriceTable_get(slots, groups[1].trio_states[1].lower_yes_slot).best_ask = 600
    /\ PriceTable_get(slots, groups[1].trio_states[1].upper_no_slot).best_ask = 500
    /\ PriceTable_get(slots, groups[1].trio_states[1].range_no_slot).best_ask = NaN

\* C32: when the engine task offers a signal to a full channel, the oldest
\* queued signal is the one lost: afterwards the channel holds the other
\* queued signals followed by the new one.
C32_OldestDroppedWhenFull ==
    [][\A u \in ChannelUpdates :
         ( /\ HandleTopOfBook(u)
           /\ Len(executor_rx) = CHANNEL_CAPACITY
           /\ Len(returned'.signals) = 1 )
            => executor_rx' = Append(Tail(executor_rx), returned'.signals[1])]_vars

\* C32, what the code does: a signal offered to a full channel is the one
\* lost, the queued signals stay as they are.
C32_NewestDroppedWhenFull ==
    [][\A u \in ChannelUpdates :
         ( /\ HandleTopOfBook(u)
           /\ Len(executor_rx) = CHANNEL_CAPACITY
           /\ Len(returned'.signals) = 1 )
            => executor_rx' = executor_rx]_vars

\* The channel is full of signals built before now, and the engine has just
\* built a signal that is not among them.
C32_NewSignalLost ==
    /\ Len(executor_rx) = CHANNEL_CAPACITY
    /\ call.op = "handle_top_of_book"
    /\ Len(returned.signals) = 1
    /\ returned.signals[1].timestamp_ms = now
    /\ \A k \in 1..Len(executor_rx) : executor_rx[k].timestamp_ms < now

\* The legs of a signal in the order parent, parent_upper, child, each with
\* the side the strategy trades it on: its token, its ask for a BUY and its
\* bid for a SELL, and its market's neg_risk flag.
LegSides(strategy) ==
    IF strategy = "POLYMARKET_TRIANGLE_BUY" THEN << "BUY", "BUY", "BUY" >>
    ELSE IF strategy = "SELL_PARENT_BUY_CHILDREN" THEN << "SELL", "BUY", "BUY" >>
    ELSE << "BUY", "SELL", "SELL" >>

QuotedLegs(sig) ==
    LET side == LegSides(sig.strategy) IN
    << [ token_id |-> sig.parent_asset_id, side |-> side[1],
         price |-> IF side[1] = "BUY" THEN sig.parent_best_ask ELSE sig.parent_best_bid,
         neg_risk |-> sig.parent_neg_risk ],
       [ token_id |-> sig.parent_upper_asset_id, side |-> side[2],
         price |-> IF side[2] = "BUY" THEN sig.parent_upper_best_ask
                   ELSE sig.parent_upper_best_bid,
         neg_risk |-> sig.parent_upper_neg_risk ],
       [ token_id |-> sig.child_asset_id, side |-> side[3],
         price |-> IF side[3] = "BUY" THEN sig.child_best_ask ELSE sig.child_best_bid,
         neg_risk |-> sig.child_neg_risk ] >>

HasQuote(leg) == IsSome(leg.price)

\* A candidate without its book size.
LegOf(candidate) ==
    [ token_id |-> candidate.token_id, side |-> candidate.side,
      price |-> candidate.price, neg_risk |-> candidate.neg_risk ]

\* C33: for the three traded strategies build_order_candidates yields the legs
\* that have their quote, in the order parent, parent_upper, child: all BUY at
\* the asks for the triangle; SELL parent at its bid and BUY the other two at
\* their asks for SELL_PARENT_BUY_CHILDREN; BUY parent at its ask and SELL the
\* other two at their bids for BUY_PARENT_SELL_CHILDREN; each with its own
\* market's neg_risk flag.
C33_CandidatesInLegOrder ==
    (built.done /\ built.signal.strategy # "POLYMARKET_COMPLEMENT_BUY") =>
        [ i \in 1..Len(built.candidates) |-> LegOf(built.candidates[i]) ]
            = SelectSeq(QuotedLegs(built.signal), HasQuote)

\* C33 witness: SELL_PARENT_BUY_CHILDREN with no ask for the upper parent gave
\* SELL parent at its bid 0.61 and BUY child at its ask 0.32, the first with
\* its market's flag unset and the second with its market's flag set.
C33_Witness ==
    /\ built.done
    /\ built.signal.strategy = "SELL_PARENT_BUY_CHILDREN"
    /\ built.signal.parent_upper_best_ask = NoneVal
    /\ built.signal.parent_upper_best_bid = 410
    /\ Len(built.candidates) = 2
    /\ built.candidates[1] = [ token_id |-> "101", price |-> 610, side |-> "SELL",
                               orderbook_size |-> 11, neg_risk |-> FALSE ]
    /\ built.candidates[2] = [ token_id |-> "103", price |-> 320, side |-> "BUY",
                               orderbook_size |-> 32, neg_risk |-> TRUE ]

\* The string is a number as the signer reads one: between blanks, decimal
\* digits, or "0x" and hexadecimal digits.
IsNumber(s) ==
    LET t == trim(s)
        body == IF Len(t) >= 2 /\ t[1] = "0" /\ t[2] = "x" THEN SubSeq(t, 3, Len(t)) ELSE t
        digits == IF body = t
                  THEN { "0", "1", "2", "3", "4", "5", "6", "7", "8", "9" }
                  ELSE { "0", "1", "2", "3", "4", "5", "6", "7", "8", "9",
                         "a", "b", "c", "d", "e", "f", "A", "B", "C", "D", "E", "F" }
    IN  body # << >> /\ \A k \in 1..Len(body) : body[k] \in digits

AllNumbers(o) ==
    /\ IsNumber(o.salt) /\ IsNumber(o.token_id)
    /\ IsNumber(o.maker_amount) /\ IsNumber(o.taker_amount)

\* The domain separator and the order fields under a signed order's signature.
DomainUnder(signed_order) == signed_order.signature[3][4]

StructUnder(signed_order) == signed_order.signature[3][5]

\* C34: sign_batch_orders returns, when every order's salt, token id and
\* amounts are numbers, one signed order per order in the orders' order, each
\* for its order's token, amounts and side, signed over the neg-risk domain
\* separator if and only if the order's neg_risk is set and over expiration 0,
\* nonce 0 and signature type 2, which it also carries; and when some order
\* has a salt, token id or amount that is no number, an error and no signed
\* order.
C34_SignedPerOrder ==
    signing.result # "" =>
        IF \A i \in 1..Len(signing.orders) : AllNumbers(signing.orders[i])
        THEN /\ signing.result = "Ok"
             /\ Len(signing.signed_orders) = Len(signing.orders)
             /\ \A i \in 1..Len(signing.orders) :
                   LET o == signing.orders[i]
                       s == signing.signed_orders[i]
                   IN  /\ s.token_id = o.token_id
                       /\ s.maker_amount = o.maker_amount
                       /\ s.taker_amount = o.taker_amount
                       /\ s.side = (IF o.side = 0 THEN "BUY" ELSE "SELL")
                       /\ s.expiration = "0" /\ s.nonce = "0" /\ s.signature_type = 2
                       /\ DomainUnder(s) = compute_domain_separator(TRUE) <=> o.neg_risk
                       /\ DomainUnder(s) = compute_domain_separator(FALSE) <=> ~o.neg_risk
                       /\ StructUnder(s)[9] = 0 /\ StructUnder(s)[10] = 0
                       /\ StructUnder(s)[13] = 2
                       /\ StructUnder(s)[12] = o.side
        ELSE /\ signing.result = "Err"
             /\ signing.signed_orders = << >>

\* C34 witness: a SELL on the neg-risk exchange followed by a BUY on the
\* standard one, the second with a hexadecimal token id, came back as two
\* signed orders in that order.
C34_Witness ==
    /\ signing.result = "Ok"
    /\ Len(signing.orders) = 2
    /\ signing.orders[1].neg_risk /\ signing.orders[1].side = 1
    /\ ~signing.orders[2].neg_risk /\ signing.orders[2].side = 0
    /\ signing.orders[2].token_id = << "0", "x", "1", "F" >>
    /\ Len(signing.signed_orders) = 2
    /\ signing.signed_orders[1].side = "SELL"
    /\ signing.signed_orders[2].side = "BUY"
    /\ StructUnder(signing.signed_orders[2])[6] = 31
    /\ DomainUnder(signing.signed_orders[1]) # DomainUnder(signing.signed_orders[2])

\* The second order of a batch has a maker amount that is no number: the call
\* returned an error and not the first order's signature either.
C34_WitnessError ==
    /\ signing.result = "Err"
    /\ Len(signing.orders) = 2
    /\ AllNumbers(signing.orders[1])
    /\ signing.orders[2].maker_amount = << "5", ".", "0" >>
    /\ signing.signed_orders = << >>

\* The token has the role in the engine-wide token index.
HasRole(asset_id, role) ==
    /\ asset_id \in DOMAIN token_index
    /\ \E r \in 1..Len(token_index[asset_id]) : token_index[asset_id][r] = role

\* The group's trio lookup leads from the token to trio i (from 0).
LooksUp(group, asset_id, i) ==
    /\ asset_id \in DOMAIN group.trio_lookup_by_asset
    /\ \E k \in 1..Len(group.trio_lookup_by_asset[asset_id]) :
          group.trio_lookup_by_asset[asset_id][k] = i

\* C35: for every trio the lower parent's YES token, the upper parent's NO
\* token, the range child's NO token, the upper parent's YES token and the
\* range child's YES token each lead to the trio's index in the group's
\* trio_lookup_by_asset, and in the token index the first three carry the
\* trio's leg roles, the upper parent's YES token its Parent role and the
\* range child's YES token its RangeChild role.
C35_TrioTokensIndexed ==
    \A g \in 1..Len(groups) : \A i \in 1..Len(groups[g].trio_states) :
        LET trio == groups[g].trio_states[i]
            upper_yes == groups[g].parent_metas[trio.parent_upper_idx + 1].clob_token_ids[1]
            range_yes == groups[g].child_metas[trio.range_idx + 1].clob_token_ids[1]
            Leg(role) == [ kind |-> "TrioLeg", group_idx |-> g - 1, idx |-> i - 1,
                           role |-> role ]
        IN  /\ \A t \in { trio.lower_yes_token, trio.upper_no_token, trio.range_no_token,
                          upper_yes, range_yes } : LooksUp(groups[g], t, i - 1)
            /\ HasRole(trio.lower_yes_token, Leg("ParentLowerYes"))
            /\ HasRole(trio.upper_no_token, Leg("ParentUpperNo"))
            /\ HasRole(trio.range_no_token, Leg("RangeNo"))
            /\ HasRole(upper_yes, [ kind |-> "Parent", group_idx |-> g - 1,
                                    idx |-> trio.parent_upper_idx, role |-> "" ])
            /\ HasRole(range_yes, [ kind |-> "RangeChild", group_idx |-> g - 1,
                                    idx |-> trio.range_idx, role |-> "" ])

\* C35 witness: two groups on the same tokens, the second with two trios; the
\* middle parent's YES token is looked up for both of them and carries roles
\* of both groups.
C35_Witness ==
    /\ call.op = "update_market_structure"
    /\ Len(groups) = 2
    /\ Len(groups[2].trio_states) = 2
    /\ groups[2].trio_lookup_by_asset["p2y"] = << 0, 1 >>
    /\ HasRole("p2y", [ kind |-> "Parent", group_idx |-> 0, idx |-> 1, role |-> "" ])
    /\ HasRole("p2y", [ kind |-> "TrioLeg", group_idx |-> 1, idx |-> 1,
                        role |-> "ParentLowerYes" ])

\* The engine as update_market_structure makes it from the groups alone.
Rebuilt(groups_input) == build_groups(groups_input, EngineEmpty)

\* handle_top_of_book would take the update as a change of price and write it
\* to the token's slot.
Processed(u) ==
    /\ is_price_changed(last_price_cache, u).changed
    /\ PriceTable_get(handle_top_of_book(u).slots, token_to_slot[u.asset_id]).best_ask
          = u.best_ask
    /\ PriceTable_get(handle_top_of_book(u).slots, token_to_slot[u.asset_id]).best_bid
          = u.best_bid

\* C36: after update_market_structure every price slot has no bid and no ask,
\* the dirty-check cache is empty and every trio's three cooldown stamps are
\* 0; slots, groups and indices are what the groups handed over alone give,
\* whatever the engine held before; and any quote of a token that has a slot,
\* one cached before the call included, is taken as a change and written.
C36_RebuildDiscardsState ==
    call.op = "update_market_structure" =>
        /\ \A k \in 1..Len(slots) : slots[k].best_bid = NaN /\ slots[k].best_ask = NaN
        /\ last_price_cache = EmptyMap
        /\ ~Stamped(groups)
        /\ slots = Rebuilt(call.groups_input).pt.slots
        /\ token_to_slot = Rebuilt(call.groups_input).pt.token_to_slot
        /\ groups = Rebuilt(call.groups_input).groups
        /\ token_index = Rebuilt(call.groups_input).token_index
        /\ returned.trio_count = Rebuilt(call.groups_input).total_trios
        /\ \A u \in CooldownUpdates : u.asset_id \in DOMAIN token_to_slot => Processed(u)

\* C36 witness: a trio had emitted and the quote 0.58 / 0.60 of the lower
\* parent's YES token was cached when the test group was pushed again; the
\* same quote now counts as a change.
C36_Witness ==
    /\ call.op = "update_market_structure"
    /\ call.groups_input = << TestGroup >>
    /\ call.discarded.stamped
    /\ "p1y" \in DOMAIN call.discarded.cache
    /\ call.discarded.cache["p1y"].bid = 580
    /\ call.discarded.cache["p1y"].ask = 600
    /\ Processed(TopOfBook("p1y", 580, 600, 100, 100, 0))

\* The fed signals whose tag is none of the three strategies traded.
UnhandledSignals == { sig \in Signals : sig.strategy \notin EngineStrategies }

\* C37: should_skip on a signal tagged POLYMARKET_COMPLEMENT_BUY, or with any
\* tag other than the three traded strategies, ends the invocation there: with
\* trading enabled, no submission under way and the cooldown over the reason
\* is NoCandidates; usdc_balance, is_submitting and last_executed_at keep
\* their values and nothing is signed or POSTed.
C37_UnhandledStrategyDropped ==
    [][\A sig \in UnhandledSignals :
         Validate(Executor, {sig}) =>
            /\ pc'[Executor] = "done"
            /\ outcome'[Executor] \in { "TradingDisabled", "AlreadySubmitting",
                                        "CooldownActive", "NoCandidates" }
            /\ (trading_enabled /\ ~is_submitting /\ ~cooldown_active)
                  => outcome'[Executor] = "NoCandidates"
            /\ UNCHANGED <<usdc_balance, is_submitting, last_executed_at>>
            /\ posts'[Executor] = 0
            /\ delivered'[Executor] = << >>]_vars

\* C37 witness: with trading enabled, a balance that would pay for a triangle
\* and no cooldown, a signal was dropped for want of candidates.
C37_Witness ==
    /\ pc[Executor] = "done"
    /\ outcome[Executor] = "NoCandidates"
    /\ trading_enabled
    /\ ~is_submitting
    /\ usdc_balance >= 3 * MIN_ORDER_SIZE
    /\ last_executed_at = 0
    /\ posts[Executor] = 0

\* Where the rosters hold the token: the pairs of a connection and a position.
Places(conns, t) ==
    { p \in UNION { {c} \X (1..Len(conns[c])) : c \in DOMAIN conns } :
        conns[p[1]][p[2]] = t }

\* C38: after a subscribe call every token of the call or of a roster, and
\* after an unsubscribe call every token of a roster that the call did not
\* name, is in exactly one roster exactly once; and a subscribe call leaves
\* every roster there was under its connection id as it was.
C38_EachTokenInOneRoster ==
    [][\A l \in TokenLists :
         /\ subscribe_tokens(l) =>
               /\ \A t \in existing_tokens(connections) \cup Range(l) :
                     Cardinality(Places(connections', t)) = 1
               /\ \A c \in DOMAIN connections :
                     c \in DOMAIN connections' /\ connections'[c] = connections[c]
         /\ unsubscribe_tokens(l) =>
               \A t \in existing_tokens(connections) \ Range(l) :
                     Cardinality(Places(connections', t)) = 1]_vars

\* A subscribe call that named a token twice left it twice in the rosters.
C38_TokenTwice ==
    /\ socket_call.op = "subscribe_tokens"
    /\ socket_call.token_ids = << "t1", "t1" >>
    /\ socket_call.before = EmptyMap
    /\ Cardinality(Places(connections, "t1")) = 2


\* The labels at which an invocation of process_signal is over.
Over == {"done", "panicked"}

\* No invocation hands over more than one trade result, and none before its
\* batch was POSTed: not after a skip, a lost compare-and-set, a failed
\* deduction or a signing failure.
C39_NoCallbackWithoutPost ==
    \A p \in Procs :
        /\ Len(delivered[p]) <= 1
        /\ posts[p] = 0 => delivered[p] = << >>
        /\ (pc[p] = "done" /\ outcome[p] \notin {"Posted", "PostFailed"})
              => delivered[p] = << >>

\* C39: each signal the executor receives produces at most one trade-result
\* callback, none when its batch was not POSTed, and, with a callback
\* registered, one by the time its invocation is over when the batch was POSTed.
C39_OneCallbackPerPost ==
    /\ [](\A p \in Procs :
            /\ Len(delivered[p]) <= 1
            /\ posts[p] = 0 => delivered[p] = << >>)
    /\ [][\A p \in Procs :
            (on_trade_result /\ posts[p] > 0 /\ pc[p] \notin Over /\ pc'[p] \in Over)
              => Len(delivered'[p]) = 1]_vars

\* A batch was POSTed with a callback registered and the invocation is over
\* without a trade result.
C39_PostedUnreported ==
    /\ pc[Executor] = "panicked"
    /\ on_trade_result
    /\ posts[Executor] = 1
    /\ delivered[Executor] = << >>


\* C40: init_executor takes effect at most once: a call made when a state is
\* stored returns an error and leaves EXECUTOR_STATE, EXECUTOR_TX, the queue
\* and the tasks spawned as they were, so at most one executor task is ever
\* spawned, and it is the one holding the stored state and receiver.
C40_InitExecutorOnce ==
    /\ [](/\ executor_init.tasks <= 1
          /\ executor_state <=> executor_init.tasks = 1
          /\ executor_init.tasks = 1 => executor_init.state = executor_init.tx)
    /\ [][(executor_init'.calls # executor_init.calls /\ executor_init.state # 0) =>
            /\ executor_init'.returned # "Ok"
            /\ executor_init'.state = executor_init.state
            /\ executor_init'.tx = executor_init.tx
            /\ executor_init'.tasks = executor_init.tasks
            /\ UNCHANGED <<executor_state, executor_rx>>]_vars

\* A second call whose state was built was refused after the first succeeded.
C40_Witness ==
    /\ executor_init.calls = 2
    /\ executor_init.state = 1
    /\ executor_init.tasks = 1
    /\ executor_init.returned = "Executor already initialized"

====
